---- MODULE Spec2Model ----
(***************************************************************************)
(* Model of the path-reconstruction and coordinate-transformation core of  *)
(* the tree-detection service:                                             *)
(*   app/utils/geometry_utils.py        segment clustering                 *)
(*   app/services/coordinate_service.py pixel -> world transform           *)
(*   app/services/geojson_service.py    feature generation                 *)
(*   app/api/routes.py                  the per-image batch loop           *)
(*                                                                         *)
(* Eight specifications share the module:                                  *)
(*   SpecGroups     find_groups applied to a segment list at thresholds    *)
(*   SpecTransform  one call of CoordinateService.transform_coordinates    *)
(*   SpecRun        the image loop of _run_predictions                     *)
(*   SpecShape      one call of a path-shaping function on a point list    *)
(*   SpecJgw        create_jgw_from_tiff and the read-back of its file     *)
(*   SpecPaths      _process_detections on the detections of one image     *)
(*   SpecSteps      find_groups statement by statement, run to its return  *)
(*   SpecJobs       two /predict requests and their job directories        *)
(***************************************************************************)
EXTENDS Integers, Sequences, FiniteSets, TLC

VARIABLES
    segments,      \* find_groups: the input list of segments
    results,       \* find_groups: threshold -> [done, groups] of the calls made
    t_jgw,         \* transform_coordinates: the lines of the world file
    t_pixels,      \* transform_coordinates: the pixel_coordinates argument
    t_polys0,      \* transform_coordinates: polygon_areas as it was at the call
    t_polys,       \* transform_coordinates: the caller's polygon_areas list object
    t_ret,         \* transform_coordinates: how the call ended and what it returned
    r_model_type,  \* _run_predictions: the model_type argument
    r_n,           \* _run_predictions: len(image_files)
    r_idx,         \* _run_predictions: images the loop has gone through
    all_features,  \* _run_predictions: all_features
    processed_images,
    total_detections,
    r_log,         \* _run_predictions: what happened to each image, in order
    r_pc,          \* _run_predictions: "loop" or "done"
    r_return,      \* _run_predictions: [status, features] once done
    s_points,      \* path shaping: the point sequence the call is given
    s_call,        \* path shaping: [op, arg, result] of the call made
    j_raster,      \* create_jgw_from_tiff: the transform and CRS of the raster
    j_out,         \* create_jgw_from_tiff: how the call ended and the file written
    j_read,        \* transform_coordinates: the coefficients parsed from that file
    p_detections,  \* _process_detections: the detections of the image, in order
    p_out,         \* _process_detections: what the call built and returned
    p_features,    \* generate_geojson on what _process_detections returned
    f_segments,    \* find_groups, stepwise: the segments argument
    f_threshold,   \* find_groups, stepwise: the threshold argument
    f_frame,       \* find_groups, stepwise: the locals and the position in the code
    f_appended,    \* find_groups, stepwise: the segments put on a queue, in order
    now,           \* /predict: the clock, in ticks
    q_upload,      \* /predict: request -> the image names in its uploaded archive
    q_request,     \* /predict: request -> [pc, job_id, read] of its handler
    temp_folder,   \* TEMP_FOLDER: job_id -> the files under it
    output_folder  \* OUTPUT_FOLDER: job_id -> the output.geojson under it

gvars == <<segments, results>>

tvars == <<t_jgw, t_pixels, t_polys0, t_polys, t_ret>>

rvars == <<r_model_type, r_n, r_idx, all_features, processed_images, total_detections,
           r_log, r_pc, r_return>>

svars == <<s_points, s_call>>

jvars == <<j_raster, j_out, j_read>>

pvars == <<p_detections, p_out, p_features>>

fvars == <<f_segments, f_threshold, f_frame, f_appended>>

qvars == <<now, q_upload, q_request, temp_folder, output_folder>>

vars == <<gvars, tvars, rvars, svars, jvars, pvars, fvars, qvars>>

Range(s) == {s[i] : i \in 1..Len(s)}

(***************************************************************************)
(* geometry_utils.py                                                       *)
(* A point is <<x, y>> with integer pixel coordinates (the callers build   *)
(* them with int()); a segment is <<a, b>>.                                *)
(***************************************************************************)

\* Bound: longest segment list given to find_groups.
MaxSegs == 3

\* Bound: largest threshold tried (thresholds run from -1 to MaxThreshold).
MaxThreshold == 3

Thresholds == -1..MaxThreshold

\* The segments the input lists are drawn from: touching (a-b), the same
\* geometry reversed (e), gaps of exactly 1 (b-c, c-d), a chain a-b-c-d whose
\* ends are not directly close, and a degenerate far segment (f).
SegPool ==
    { <<<<0, 0>>, <<1, 0>>>>,
      <<<<1, 0>>, <<2, 0>>>>,
      <<<<3, 0>>, <<4, 0>>>>,
      <<<<4, 1>>, <<5, 1>>>>,
      <<<<2, 0>>, <<1, 0>>>>,
      <<<<7, 1>>, <<7, 1>>>> }

RECURSIVE SeqsUpTo(_, _)
SeqsUpTo(S, n) ==
    IF n = 0 THEN {<<>>}
    ELSE LET shorter == SeqsUpTo(S, n - 1)
         IN shorter \cup {Append(q, x) : q \in {r \in shorter : Len(r) = n - 1}, x \in S}

\* (p1[0] - p2[0]) ** 2 + (p1[1] - p2[1]) ** 2, the radicand of distance().
Dist2(p1, p2) ==
    (p1[1] - p2[1]) * (p1[1] - p2[1]) + (p1[2] - p2[2]) * (p1[2] - p2[2])

\* distance(p1, p2) < threshold.  The square root is non-negative, so the
\* comparison is false for every threshold <= 0 and otherwise compares squares.
DistanceLess(p1, p2, threshold) ==
    threshold > 0 /\ Dist2(p1, p2) < threshold * threshold

\* Mutation of are_connected_or_close: the comparison reversed.
AreFarApart(seg1, seg2, threshold) ==
    \/ ~DistanceLess(seg1[1], seg2[1], threshold)
    \/ ~DistanceLess(seg1[1], seg2[2], threshold)
    \/ ~DistanceLess(seg1[2], seg2[1], threshold)
    \/ ~DistanceLess(seg1[2], seg2[2], threshold)

are_connected_or_close(seg1, seg2, threshold) ==
    \/ DistanceLess(seg1[1], seg2[1], threshold)
    \/ DistanceLess(seg1[1], seg2[2], threshold)
    \/ DistanceLess(seg1[2], seg2[1], threshold)
    \/ DistanceLess(seg1[2], seg2[2], threshold)

\* Mutation of the outer loop's test: a visited segment is not skipped.
OuterNoSkip(segment, visited) == FALSE

\* if segment in visited: continue
OuterSkip(segment, visited) == segment \in visited

\* for seg in segments: if seg not in visited and are_connected_or_close(...)
\* st is [visited, group, queue]; k is the position of the scan.
RECURSIVE InnerFor(_, _, _, _, _)
InnerFor(k, current_segment, segs, threshold, st) ==
    IF k > Len(segs) THEN st
    ELSE LET seg == segs[k]
         IN IF seg \notin st.visited /\ are_connected_or_close(current_segment, seg, threshold)
            THEN InnerFor(k + 1, current_segment, segs, threshold,
                          [visited |-> st.visited \cup {seg},
                           group   |-> Append(st.group, seg),
                           queue   |-> Append(st.queue, seg)])
            ELSE InnerFor(k + 1, current_segment, segs, threshold, st)

\* Mutation of the queue loop: "if queue" for "while queue", one expansion only.
WhileQueueOnce(segs, threshold, st) ==
    IF st.queue = <<>> THEN st
    ELSE [InnerFor(1, Head(st.queue), segs, threshold,
                   [st EXCEPT !.queue = Tail(st.queue)]) EXCEPT !.queue = <<>>]

\* while queue: current_segment = queue.popleft(); scan all segments
RECURSIVE WhileQueue(_, _, _)
WhileQueue(segs, threshold, st) ==
    IF st.queue = <<>> THEN st
    ELSE WhileQueue(segs, threshold,
                    InnerFor(1, Head(st.queue), segs, threshold,
                             [st EXCEPT !.queue = Tail(st.queue)]))

\* Mutation of the outer loop: the segments a group's expansion visited are
\* forgotten when the next group starts.
RECURSIVE OuterForForgetting(_, _, _, _, _)
OuterForForgetting(i, segs, threshold, visited, groups) ==
    IF i > Len(segs) THEN groups
    ELSE LET segment == segs[i]
         IN IF OuterSkip(segment, visited)
            THEN OuterForForgetting(i + 1, segs, threshold, visited, groups)
            ELSE LET st == WhileQueue(segs, threshold,
                                      [visited |-> visited \cup {segment},
                                       group   |-> <<segment>>,
                                       queue   |-> <<segment>>])
                 IN OuterForForgetting(i + 1, segs, threshold, visited \cup {segment},
                                       Append(groups, st.group))

\* for segment in segments: start a group at every unvisited segment
RECURSIVE OuterFor(_, _, _, _, _)
OuterFor(i, segs, threshold, visited, groups) ==
    IF i > Len(segs) THEN groups
    ELSE LET segment == segs[i]
         IN IF OuterSkip(segment, visited)
            THEN OuterFor(i + 1, segs, threshold, visited, groups)
            ELSE LET st == WhileQueue(segs, threshold,
                                      [visited |-> visited \cup {segment},
                                       group   |-> <<segment>>,
                                       queue   |-> <<segment>>])
                 IN OuterFor(i + 1, segs, threshold, st.visited, Append(groups, st.group))

\* Mutation of find_groups: groups starts as [[]].
find_groups_from_empty_group(segs, threshold) == OuterFor(1, segs, threshold, {}, << <<>> >>)

find_groups(segs, threshold) == OuterFor(1, segs, threshold, {}, <<>>)

(***************************************************************************)
(* SpecGroups: a segment list is fixed, find_groups is called on it with   *)
(* one threshold after another and each call's result is kept.             *)
(***************************************************************************)

NoResult == [done |-> FALSE, groups |-> <<>>]

\* The variables of a specification that is not running keep these values.
GroupsIdle == segments = <<>> /\ results = <<>>

NoReturn == [pc |-> "idle", from_crs |-> "not called", transformer |-> FALSE, coords |-> <<>>]

TransformIdle ==
    /\ t_jgw = <<>> /\ t_pixels = <<>> /\ t_polys0 = <<>> /\ t_polys = <<>>
    /\ t_ret = NoReturn

NotReturned == [status |-> "running", features |-> <<>>]

RunIdle ==
    /\ r_model_type = "" /\ r_n = 0 /\ r_idx = 0 /\ all_features = <<>>
    /\ processed_images = 0 /\ total_detections = 0 /\ r_log = <<>>
    /\ r_pc = "idle" /\ r_return = NotReturned

NoCall == [op |-> "none", arg |-> 0, result |-> <<>>]

ShapeIdle == s_points = <<>> /\ s_call = NoCall

NoRaster == [transform |-> <<>>, crs |-> <<>>]

NoFile == [pc |-> "idle", lines |-> <<>>, written |-> <<>>]

NotRead == [done |-> FALSE, co |-> <<>>]

JgwIdle == j_raster = NoRaster /\ j_out = NoFile /\ j_read = NotRead

NotProcessed ==
    [pc |-> "idle", center_points |-> <<>>, polygon_areas |-> <<>>,
     all_path_points |-> <<>>, path_groups |-> <<>>, paths |-> <<>>]

NotGenerated == [done |-> FALSE, model_type |-> "", features |-> <<>>]

PathsIdle == p_detections = <<>> /\ p_out = NotProcessed /\ p_features = NotGenerated

NotCalled ==
    [pc |-> "idle", i |-> 0, visited |-> {}, groups |-> <<>>, group |-> <<>>,
     queue |-> <<>>, current_segment |-> <<>>, k |-> 0]

StepsIdle ==
    /\ f_segments = <<>> /\ f_threshold = 0 /\ f_frame = NotCalled /\ f_appended = <<>>

\* A folder with no job directory under it.
NoFolder == [dirs |-> {}, files |-> {}]

JobsIdle ==
    /\ now = 0 /\ q_upload = <<>> /\ q_request = <<>>
    /\ temp_folder = NoFolder /\ output_folder = NoFolder

GroupsInit ==
    /\ segments \in SeqsUpTo(SegPool, MaxSegs)
    /\ results = [t \in Thresholds |-> NoResult]
    /\ TransformIdle
    /\ RunIdle
    /\ ShapeIdle
    /\ JgwIdle
    /\ PathsIdle
    /\ StepsIdle
    /\ JobsIdle

Cluster(t) ==
    /\ ~results[t].done
    /\ results' = [results EXCEPT ![t] = [done |-> TRUE, groups |-> find_groups(segments, t)]]
    /\ UNCHANGED <<segments, tvars, rvars, svars, jvars, pvars, fvars, qvars>>

GroupsNext == \E t \in Thresholds : Cluster(t)

SpecGroups == GroupsInit /\ [][GroupsNext]_vars

(***************************************************************************)
(* Claims about find_groups                                                *)
(***************************************************************************)

GroupsOf(G, s) == {g \in 1..Len(G) : s \in Range(G[g])}

SameGroup(G, s1, s2) == \E g \in 1..Len(G) : s1 \in Range(G[g]) /\ s2 \in Range(G[g])

\* The segments a chain of pairwise-close input segments leads to from S.
RECURSIVE ChainClosure(_, _, _)
ChainClosure(S, All, t) ==
    LET more == S \cup {y \in All : \E x \in S : are_connected_or_close(x, y, t)}
    IN IF more = S THEN S ELSE ChainClosure(more, All, t)

\* C1: the groups find_groups returns partition the input: every input
\* segment is in exactly one group and occurs once in it, no group is empty,
\* and no group holds a segment that is not in the input.
C1_Partition ==
    \A t \in Thresholds :
        results[t].done =>
            LET G == results[t].groups
            IN /\ \A s \in Range(segments) : Cardinality(GroupsOf(G, s)) = 1
               /\ \A g \in 1..Len(G) :
                    /\ Len(G[g]) >= 1
                    /\ \A i, j \in 1..Len(G[g]) : i # j => G[g][i] # G[g][j]
                    /\ Range(G[g]) \subseteq Range(segments)

C1_Witness ==
    \E t \in Thresholds :
        /\ results[t].done
        /\ Len(segments) = 3
        /\ Len(results[t].groups) = 2
        /\ \E g \in 1..2 : Len(results[t].groups[g]) = 2

\* C2: at a fixed threshold two input segments share a group exactly when a
\* chain of input segments, each consecutive pair are_connected_or_close,
\* joins them; the chains depend on the set of segments only, so the groups
\* are the same sets for every order of the input list.
C2_Components ==
    \A t \in Thresholds :
        results[t].done =>
            \A s1, s2 \in Range(segments) :
                SameGroup(results[t].groups, s1, s2)
                    <=> s2 \in ChainClosure({s1}, Range(segments), t)

\* A chain of three: the ends share a group without being close themselves,
\* and a smaller threshold keeps two of the segments apart.
C2_Witness ==
    \E t \in Thresholds :
        /\ results[t].done
        /\ \E s1, s2 \in Range(segments) :
              /\ s1 # s2
              /\ ~are_connected_or_close(s1, s2, t)
              /\ SameGroup(results[t].groups, s1, s2)
        /\ \E t0 \in Thresholds :
              /\ results[t0].done
              /\ \E s1, s2 \in Range(segments) : ~SameGroup(results[t0].groups, s1, s2)

\* C3: threshold monotonicity: segments grouped together at threshold t stay
\* together at every larger threshold t2.
C3_Monotone ==
    \A t, t2 \in Thresholds :
        (t < t2 /\ results[t].done /\ results[t2].done) =>
            \A s1, s2 \in Range(segments) :
                SameGroup(results[t].groups, s1, s2) => SameGroup(results[t2].groups, s1, s2)

C3_Witness ==
    \E t, t2 \in Thresholds :
        /\ t < t2 /\ results[t].done /\ results[t2].done
        /\ \E s1, s2 \in Range(segments) :
              s1 # s2 /\ SameGroup(results[t].groups, s1, s2)
        /\ \E s1, s2 \in Range(segments) :
              ~SameGroup(results[t].groups, s1, s2) /\ SameGroup(results[t2].groups, s1, s2)

\* Two segments touch when they share an endpoint.
Touching(s1, s2) == {s1[1], s1[2]} \cap {s2[1], s2[2]} # {}

\* C4: segments that share an endpoint are in the same group for every
\* threshold >= 0, threshold 0 included.
C4_TouchingGrouped ==
    \A t \in Thresholds :
        (t >= 0 /\ results[t].done) =>
            \A s1, s2 \in Range(segments) :
                Touching(s1, s2) => SameGroup(results[t].groups, s1, s2)

\* len(group) summed over the groups.
RECURSIVE TotalSegments(_)
TotalSegments(G) == IF G = <<>> THEN 0 ELSE Len(Head(G)) + TotalSegments(Tail(G))

\* C23 as stated: when the input list holds a segment value more than once,
\* every occurrence is accounted for: the groups hold as many segments in
\* total as the input list is long.
C23_EveryOccurrenceCounted ==
    \A t \in Thresholds :
        results[t].done => TotalSegments(results[t].groups) = Len(segments)

\* C23, by value: the groups hold each distinct segment value of the input
\* once, so their total is the number of distinct values, which is below
\* the length of the list when a value occurs more than once.
C23_DistinctValuesCounted ==
    \A t \in Thresholds :
        results[t].done =>
            /\ TotalSegments(results[t].groups) = Cardinality(Range(segments))
            /\ Cardinality(Range(segments)) < Len(segments)
                  => TotalSegments(results[t].groups) < Len(segments)

\* A list of three segments, one value twice and close to the third, has
\* been grouped at a threshold that joins them.
C23_Witness ==
    /\ Len(segments) = 3
    /\ Cardinality(Range(segments)) = 2
    /\ \E t \in Thresholds :
          /\ results[t].done
          /\ Len(results[t].groups) = 1
          /\ TotalSegments(results[t].groups) = 2

(***************************************************************************)
(* coordinate_service.py: CoordinateService.transform_coordinates          *)
(*                                                                         *)
(* A world file is the list readlines() returns: one sequence of           *)
(* characters per line.  Numbers are held exactly, in tenths (the value    *)
(* 5.2 is 52): the world files of the model carry at most one fractional   *)
(* digit and the pixel coordinates are integers, so every product and sum  *)
(* of the affine rule is exact.                                            *)
(***************************************************************************)

Txt_0_0 == <<"0", ".", "0">>
Txt_1_0 == <<"1", ".", "0">>
Txt_2_0 == <<"2", ".", "0">>
Txt_3_0 == <<"3", ".", "0">>
Txt_0_2 == <<"0", ".", "2">>
Txt_m0_2 == <<"-", "0", ".", "2">>
Txt_5_2 == <<"5", ".", "2">>
Txt_50_9 == <<"5", "0", ".", "9">>
Txt_499999_9 == <<"4", "9", "9", "9", "9", "9", ".", "9">>
Txt_500000_0 == <<"5", "0", "0", "0", "0", "0", ".", "0">>
Txt_650000 == <<"6", "5", "0", "0", "0", "0">>
Txt_900000_0 == <<"9", "0", "0", "0", "0", "0", ".", "0">>
Txt_900000_1 == <<"9", "0", "0", "0", "0", "0", ".", "1">>
Txt_4999999_9 == <<"4", "9", "9", "9", "9", "9", "9", ".", "9">>
Txt_5000000_0 == <<"5", "0", "0", "0", "0", "0", "0", ".", "0">>
Txt_5800000 == <<"5", "8", "0", "0", "0", "0", "0">>
Txt_6500000_0 == <<"6", "5", "0", "0", "0", "0", "0", ".", "0">>
Txt_6500000_1 == <<"6", "5", "0", "0", "0", "0", "0", ".", "1">>
Txt_abc == <<"a", "b", "c">>
Txt_1c5 == <<"1", ",", "5">>

\* A line as readlines() yields it, and the same line of a CRLF file.
Ln(txt) == txt \o <<"\n">>
LnCr(txt) == <<" ">> \o txt \o <<"\r", "\n">>

FileOf(a, d, b, e, c, f) == <<Ln(a), Ln(d), Ln(b), Ln(e), Ln(c), Ln(f)>>

\* x origins and y origins around the two ends of the UTM envelope.
OriginsC == {Txt_0_0, Txt_5_2, Txt_499999_9, Txt_500000_0, Txt_650000,
             Txt_900000_0, Txt_900000_1}
OriginsF == {Txt_0_0, Txt_50_9, Txt_4999999_9, Txt_5000000_0, Txt_5800000,
             Txt_6500000_0, Txt_6500000_1}

UtmFile == FileOf(Txt_0_2, Txt_0_0, Txt_0_0, Txt_m0_2, Txt_650000, Txt_5800000)
IdentityFile == FileOf(Txt_1_0, Txt_0_0, Txt_0_0, Txt_1_0, Txt_0_0, Txt_0_0)
DegreeFile == FileOf(Txt_0_2, Txt_0_0, Txt_0_0, Txt_m0_2, Txt_5_2, Txt_50_9)

\* Six numeric lines: a rotated transform at every origin of OriginsC with a
\* y origin inside the envelope and at every origin of OriginsF with an x
\* origin inside it, the identity, a degree-based file, a CRLF file.
GoodFiles ==
    {FileOf(Txt_2_0, Txt_1_0, Txt_3_0, Txt_m0_2, c, Txt_5800000) : c \in OriginsC}
    \cup {FileOf(Txt_2_0, Txt_1_0, Txt_3_0, Txt_m0_2, Txt_650000, f) : f \in OriginsF}
    \cup {FileOf(Txt_2_0, Txt_1_0, Txt_3_0, Txt_m0_2, Txt_5_2, Txt_50_9)}
    \cup {UtmFile, IdentityFile, DegreeFile}
    \cup {<<LnCr(Txt_0_2), LnCr(Txt_0_0), LnCr(Txt_0_0), LnCr(Txt_m0_2),
            LnCr(Txt_650000), Txt_5800000>>}

\* Six numeric lines followed by more lines.
LongFiles ==
    {Append(UtmFile, Ln(Txt_0_0)), Append(UtmFile, Ln(<<>>)),
     Append(DegreeFile, Ln(Txt_abc))}

\* Fewer than six lines, or a line among the first six that float() rejects.
BadFiles ==
    {<<>>, SubSeq(UtmFile, 1, 5),
     [UtmFile EXCEPT ![3] = Ln(Txt_abc)],
     [UtmFile EXCEPT ![1] = Ln(Txt_1c5)],
     [UtmFile EXCEPT ![4] = Ln(<<>>)],
     [UtmFile EXCEPT ![6] = Ln(<<"-">>)],
     Append([UtmFile EXCEPT ![2] = Ln(<<>>)], Ln(Txt_0_0))}

WorldFiles == GoodFiles \cup LongFiles \cup BadFiles

\* str.strip(): leading and trailing whitespace removed.
Whitespace == {" ", "\n", "\r", "\t"}

RECURSIVE LStrip(_)
LStrip(s) == IF s # <<>> /\ Head(s) \in Whitespace THEN LStrip(Tail(s)) ELSE s

RECURSIVE RStrip(_)
RStrip(s) ==
    IF s # <<>> /\ s[Len(s)] \in Whitespace THEN RStrip(SubSeq(s, 1, Len(s) - 1)) ELSE s

Strip(s) == RStrip(LStrip(s))

DigitChars == <<"0", "1", "2", "3", "4", "5", "6", "7", "8", "9">>

IsDigit(c) == c \in Range(DigitChars)

DigitVal(c) == (CHOOSE i \in 1..Len(DigitChars) : DigitChars[i] = c) - 1

RECURSIVE DigitsVal(_)
DigitsVal(s) ==
    IF s = <<>> THEN 0 ELSE 10 * DigitsVal(SubSeq(s, 1, Len(s) - 1)) + DigitVal(s[Len(s)])

\* Mutation of the parse: a value float() rejects is read as 0.0.
ParseFloatLenient(line) ==
    LET t == Strip(line)
    IN IF t # <<>> /\ \A i \in 1..Len(t) : IsDigit(t[i])
       THEN [ok |-> TRUE, val |-> 10 * DigitsVal(t)]
       ELSE [ok |-> TRUE, val |-> 0]

\* float(line.strip()) on a decimal literal: an optional sign, digits, an
\* optional point and fraction.  ok is FALSE where float() raises ValueError;
\* val is the value in tenths.
\* The digits before and after the point: ok is FALSE where a character is
\* no digit or no digit is there at all; val is the magnitude in tenths.
ParseParts(whole, frac) ==
    IF /\ \A i \in 1..Len(whole) : IsDigit(whole[i])
       /\ \A i \in 1..Len(frac) : IsDigit(frac[i])
       /\ Len(whole) + Len(frac) >= 1
    THEN [ok  |-> TRUE,
          val |-> 10 * DigitsVal(whole) + (IF frac = <<>> THEN 0 ELSE DigitVal(frac[1]))]
    ELSE [ok |-> FALSE, val |-> 0]

\* An unsigned literal: at most one point.
ParseUnsigned(body) ==
    IF \A i \in 1..Len(body) : body[i] # "."
    THEN ParseParts(body, <<>>)
    ELSE ParseParts(SubSeq(body, 1, (CHOOSE i \in 1..Len(body) : body[i] = ".") - 1),
                    SubSeq(body, (CHOOSE i \in 1..Len(body) : body[i] = ".") + 1, Len(body)))

Negated(r) == [r EXCEPT !.val = -r.val]

ParseStripped(t) ==
    IF t = <<>> THEN [ok |-> FALSE, val |-> 0]
    ELSE IF t[1] = "-" THEN Negated(ParseUnsigned(Tail(t)))
    ELSE IF t[1] = "+" THEN ParseUnsigned(Tail(t))
    ELSE ParseUnsigned(t)

ParseFloat(line) == ParseStripped(Strip(line))

\* Lines 119-128: jgw_lines[0..5] parsed in the order A, D, B, E, C, F.
\* raised: IndexError on a missing line or ValueError on a rejected one.
JgwOf(P) ==
    [raised |-> \E k \in 1..6 : ~P[k].ok,
     A |-> P[1].val, D |-> P[2].val, B |-> P[3].val,
     E |-> P[4].val, C |-> P[5].val, F |-> P[6].val]

ParseJgw(jgw_lines) ==
    JgwOf([k \in 1..6 |-> IF k <= Len(jgw_lines) THEN ParseFloat(jgw_lines[k])
                                                ELSE [ok |-> FALSE, val |-> 0]])

Abs(v) == IF v < 0 THEN -v ELSE v

\* is_projected = (abs(C) > 1000 or abs(F) > 1000 or abs(A) > 1)
is_projected(co) == Abs(co.C) > 10 * 1000 \/ Abs(co.F) > 10 * 1000 \/ Abs(co.A) > 10 * 1

\* Mutation of the envelope test: strict comparisons.
InEnvelopeStrict(co) ==
    /\ 10 * 500000 < co.C /\ co.C < 10 * 900000
    /\ 10 * 5000000 < co.F /\ co.F < 10 * 6500000

\* 500000 <= C <= 900000 and 5000000 <= F <= 6500000
InEnvelope(co) ==
    /\ 10 * 500000 <= co.C /\ co.C <= 10 * 900000
    /\ 10 * 5000000 <= co.F /\ co.F <= 10 * 6500000

\* transformer.transform(x, y) of the EPSG:25832 -> EPSG:4326 transformer
\* (always_xy): a stand-in for pyproj's projection that maps tenths of metres
\* to tenths of degrees around the central meridian 9 E; it is no identity.
Reproject(x, y) == <<90 + ((x - 5000000) * 10) \div 685000, y \div 111320>>

\* Mutation of the affine rule: the rotation terms B and D exchanged.
TransformPointSwapped(px, py, co, transformer) ==
    LET x == co.A * px + co.D * py + co.C
        y == co.B * px + co.E * py + co.F
    IN IF transformer THEN Reproject(x, y) ELSE <<x, y>>

\* actual_x = A*px + B*py + C; actual_y = D*px + E*py + F; then the
\* reprojection if a transformer exists (lines 154-162 and 172-177).
TransformPoint(px, py, co, transformer) ==
    LET x == co.A * px + co.B * py + co.C
        y == co.D * px + co.E * py + co.F
    IN IF transformer THEN Reproject(x, y) ELSE <<x, y>>

\* Mutation of the line transform: the endpoints appended in the wrong order.
TransformLineReversed(value, co, transformer) ==
    <<TransformPoint(value[2][1], value[2][2], co, transformer),
      TransformPoint(value[1][1], value[1][2], co, transformer)>>

\* a, b = value; the two coordinates extend() appends for one line.
TransformLine(value, co, transformer) ==
    <<TransformPoint(value[1][1], value[1][2], co, transformer),
      TransformPoint(value[2][1], value[2][2], co, transformer)>>

RECURSIVE Flatten(_)
Flatten(ss) == IF ss = <<>> THEN <<>> ELSE Head(ss) \o Flatten(Tail(ss))

\* A polygon_areas entry: {name: area, 'line_value': ...}.  line_value is
\* False (kind "False"), a list of ((x1, y1), (x2, y2)) segments (kind
\* "segments") or, once transformed, a flat list of [x, y] (kind "coords").
LineValue(kind, items) == [kind |-> kind, items |-> items]

\* if line_values and line_values is not False
HasLines(poly) == poly.line_value.kind # "False" /\ poly.line_value.items # <<>>

\* Lines 147-166: one entry of polygon_areas after the loop body.
TransformPoly(poly, co, transformer) ==
    IF HasLines(poly)
    THEN [poly EXCEPT !.line_value =
            LineValue("coords",
                      Flatten([i \in 1..Len(poly.line_value.items) |->
                                  TransformLine(poly.line_value.items[i], co, transformer)]))]
    ELSE poly

\* The whole call.  crs_ok: whether Transformer.from_crs returns (it raises,
\* for instance, without a usable PROJ database, and the except clause leaves
\* the transformer None); from_crs records how that call went.  polys is the
\* caller's list after the call: the code assigns poly['line_value'] in
\* place and returns that same list.
\* Lines 146-184 with the coefficients and the transformer in hand.
TransformAll(co, transformer, pixel_coordinates, polygon_areas) ==
    [coords |-> [i \in 1..Len(pixel_coordinates) |->
                    TransformPoint(pixel_coordinates[i][1], pixel_coordinates[i][2],
                                   co, transformer)],
     polys  |-> [i \in 1..Len(polygon_areas) |->
                    TransformPoly(polygon_areas[i], co, transformer)]]

\* Mutation of the call: a parse error surfaces only after the polygon loop
\* has assigned the entries.
TransformParsedLateCheck(co, pixel_coordinates, polygon_areas, crs_ok) ==
    IF co.raised
    THEN [raised |-> TRUE, from_crs |-> "not called", transformer |-> FALSE,
          coords |-> <<>>,
          polys  |-> TransformAll(co, FALSE, pixel_coordinates, polygon_areas).polys]
    ELSE [raised |-> FALSE, from_crs |-> "not called", transformer |-> FALSE]
         @@ TransformAll(co, FALSE, pixel_coordinates, polygon_areas)

\* Lines 132-184 with the parsed coefficients in hand.
TransformParsed(co, pixel_coordinates, polygon_areas, crs_ok) ==
    IF co.raised
    THEN [raised |-> TRUE, from_crs |-> "not called", transformer |-> FALSE,
          coords |-> <<>>, polys |-> polygon_areas]
    ELSE IF is_projected(co) /\ InEnvelope(co)
    THEN [raised |-> FALSE, from_crs |-> IF crs_ok THEN "returned" ELSE "raised",
          transformer |-> crs_ok]
         @@ TransformAll(co, crs_ok, pixel_coordinates, polygon_areas)
    ELSE [raised |-> FALSE, from_crs |-> "not called", transformer |-> FALSE]
         @@ TransformAll(co, FALSE, pixel_coordinates, polygon_areas)

transform_coordinates(jgw_lines, pixel_coordinates, polygon_areas, crs_ok) ==
    TransformParsed(ParseJgw(jgw_lines), pixel_coordinates, polygon_areas, crs_ok)

(***************************************************************************)
(* SpecTransform: one call of transform_coordinates on a world file, a     *)
(* list of pixel centres and a polygon_areas list.                         *)
(***************************************************************************)

\* Bound: longest pixel_coordinates list.
MaxPts == 2

\* Bound: longest polygon_areas list.
MaxPolys == 2

PixelPool == {<<10, 20>>, <<100, 50>>}

PolyPool ==
    { [name |-> "tree", area |-> "12.5 m2", line_value |-> LineValue("False", <<>>)],
      [name |-> "path", area |-> "0.0 m2", line_value |-> LineValue("segments", <<>>)],
      [name |-> "path", area |-> "0.0 m2",
       line_value |-> LineValue("segments", << <<<<10, 20>>, <<100, 50>>>> >>)],
      [name |-> "path", area |-> "0.0 m2",
       line_value |-> LineValue("segments", << <<<<0, 0>>, <<4, 1>>>>, <<<<4, 1>>, <<9, 7>>>> >>)] }

TransformInit ==
    /\ t_jgw \in WorldFiles
    /\ t_pixels \in SeqsUpTo(PixelPool, MaxPts)
    /\ t_polys0 \in SeqsUpTo(PolyPool, MaxPolys)
    /\ t_polys = t_polys0
    /\ t_ret = NoReturn
    /\ GroupsIdle
    /\ RunIdle
    /\ ShapeIdle
    /\ JgwIdle
    /\ PathsIdle
    /\ StepsIdle
    /\ JobsIdle

Transform(crs_ok) ==
    /\ t_ret.pc = "idle"
    /\ \E r \in {transform_coordinates(t_jgw, t_pixels, t_polys, crs_ok)} :
          /\ t_polys' = r.polys
          /\ t_ret' = [pc          |-> IF r.raised THEN "raised" ELSE "returned",
                       from_crs    |-> r.from_crs,
                       transformer |-> r.transformer,
                       coords      |-> r.coords]
    /\ UNCHANGED <<t_jgw, t_pixels, t_polys0, gvars, rvars, svars, jvars, pvars, fvars, qvars>>

TransformNext == \E crs_ok \in BOOLEAN : Transform(crs_ok)

SpecTransform == TransformInit /\ [][TransformNext]_vars

(***************************************************************************)
(* Claims about transform_coordinates                                      *)
(***************************************************************************)

\* The coefficients of the world file of the call, in tenths.
Co == ParseJgw(t_jgw)

\* The origin lies in 500000 <= C <= 900000 and 5000000 <= F <= 6500000.
OriginInEnvelope(co) ==
    /\ 5000000 <= co.C /\ co.C <= 9000000
    /\ 50000000 <= co.F /\ co.F <= 65000000

\* [A*px + B*py + C, D*px + E*py + F]
Affine(p, co) == <<co.A * p[1] + co.B * p[2] + co.C, co.D * p[1] + co.E * p[2] + co.F>>

\* The rule of the call: affine, then the reprojection if a transformer exists.
Rule(p, co) ==
    LET xy == Affine(p, co)
    IN IF t_ret.transformer THEN Reproject(xy[1], xy[2]) ELSE xy

\* Entry k of polygon_areas held a non-empty list of segments at the call.
HadLines(k) ==
    t_polys0[k].line_value.kind = "segments" /\ t_polys0[k].line_value.items # <<>>

\* Entry k of polygon_areas is as it was at the call.
Untouched(k) ==
    /\ t_polys[k].name = t_polys0[k].name
    /\ t_polys[k].area = t_polys0[k].area
    /\ t_polys[k].line_value.kind = t_polys0[k].line_value.kind
    /\ t_polys[k].line_value.items = t_polys0[k].line_value.items

\* Every returned coordinate, of a centre or of a line, is the affine result.
AffineOnly(co) ==
    /\ \A i \in 1..Len(t_pixels) : t_ret.coords[i] = Affine(t_pixels[i], co)
    /\ \A k \in 1..Len(t_polys0) :
          HadLines(k) =>
              \A i \in 1..Len(t_polys0[k].line_value.items) :
                  /\ t_polys[k].line_value.items[2 * i - 1]
                        = Affine(t_polys0[k].line_value.items[i][1], co)
                  /\ t_polys[k].line_value.items[2 * i]
                        = Affine(t_polys0[k].line_value.items[i][2], co)

\* C5 as stated: the transformer exists exactly when the origin lies in the
\* envelope, and outside the envelope every output is the affine result.
C5_TransformerIffEnvelope ==
    t_ret.pc = "returned" =>
        LET co == Co
        IN /\ t_ret.transformer <=> OriginInEnvelope(co)
           /\ ~OriginInEnvelope(co) => AffineOnly(co)

\* C5 amended: Transformer.from_crs is called exactly when the origin lies
\* in the envelope and the transformer exists exactly when that call
\* returns one; outside the envelope no transformer exists and every output
\* is the affine result.
C5_TransformerIffEnvelopeAndBuilt ==
    t_ret.pc = "returned" =>
        LET co == Co
        IN /\ t_ret.from_crs # "not called" <=> OriginInEnvelope(co)
           /\ t_ret.transformer <=> (OriginInEnvelope(co) /\ t_ret.from_crs = "returned")
           /\ ~OriginInEnvelope(co) => (~t_ret.transformer /\ AffineOnly(co))

\* An origin on the edge of the envelope, the transformer built and used.
C5_Witness ==
    /\ t_ret.pc = "returned"
    /\ t_ret.transformer
    /\ Co.C = 5000000
    /\ Len(t_pixels) = 2
    /\ t_ret.coords[1] # Affine(t_pixels[1], Co)

\* C6: without a transformer the call returns one coordinate per pixel
\* point, in order, each [A*px + B*py + C, D*px + E*py + F]; the identity
\* coefficients return every point unchanged.
C6_AffineRule ==
    (t_ret.pc = "returned" /\ ~t_ret.transformer) =>
        LET co == Co
        IN /\ Len(t_ret.coords) = Len(t_pixels)
           /\ \A i \in 1..Len(t_pixels) :
                 /\ t_ret.coords[i] = Affine(t_pixels[i], co)
                 /\ (co.A = 10 /\ co.D = 0 /\ co.B = 0 /\ co.E = 10 /\ co.C = 0 /\ co.F = 0)
                       => t_ret.coords[i] = <<10 * t_pixels[i][1], 10 * t_pixels[i][2]>>

\* Two different points under a rotated transform, no transformer.
C6_Witness ==
    /\ t_ret.pc = "returned" /\ ~t_ret.transformer
    /\ Len(t_pixels) = 2 /\ t_pixels[1] # t_pixels[2]
    /\ Co.B # 0 /\ Co.D # 0 /\ Co.B # Co.D

\* C7: an entry whose line_value holds n segments (a_i, b_i) comes back with
\* a flat list of 2n coordinates, Rule(a_i) at 2i-1 and Rule(b_i) at 2i
\* (counting from 1), Rule being what a centre at the same pixel gets; an
\* entry whose line_value is False or empty is left as it is.
C7_LinesFlattened ==
    t_ret.pc = "returned" =>
        LET co == Co IN
        /\ Len(t_polys) = Len(t_polys0)
        /\ \A k \in 1..Len(t_polys0) :
              IF HadLines(k)
              THEN LET segs == t_polys0[k].line_value.items
                       out  == t_polys[k].line_value
                   IN /\ t_polys[k].name = t_polys0[k].name
                      /\ t_polys[k].area = t_polys0[k].area
                      /\ out.kind = "coords"
                      /\ Len(out.items) = 2 * Len(segs)
                      /\ \A i \in 1..Len(segs) :
                            /\ out.items[2 * i - 1] = Rule(segs[i][1], co)
                            /\ out.items[2 * i] = Rule(segs[i][2], co)
                            /\ \A j \in 1..Len(t_pixels) :
                                  /\ t_pixels[j] = segs[i][1] => t_ret.coords[j] = out.items[2 * i - 1]
                                  /\ t_pixels[j] = segs[i][2] => t_ret.coords[j] = out.items[2 * i]
              ELSE Untouched(k)

\* A two-segment path next to a tree entry, reprojected, with a centre on an
\* endpoint of a line.
C7_Witness ==
    /\ t_ret.pc = "returned" /\ t_ret.transformer
    /\ \E k \in 1..Len(t_polys0) : HadLines(k) /\ Len(t_polys0[k].line_value.items) = 2
    /\ \E k \in 1..Len(t_polys0) : t_polys0[k].line_value.kind = "False"
    /\ \E j \in 1..Len(t_pixels) : t_pixels[j] = <<10, 20>>

\* The texts of the model that float() accepts, listed one by one.
NumericTexts ==
    {Txt_0_0, Txt_1_0, Txt_2_0, Txt_3_0, Txt_0_2, Txt_m0_2, Txt_5_2, Txt_50_9,
     Txt_499999_9, Txt_500000_0, Txt_650000, Txt_900000_0, Txt_900000_1,
     Txt_4999999_9, Txt_5000000_0, Txt_5800000, Txt_6500000_0, Txt_6500000_1}

NumericLine(line) == \E t \in NumericTexts : line \in {t, Ln(t), LnCr(t)}

\* C8 as stated: a world file whose line count is not exactly six, or with
\* a non-numeric value in any line, makes the call fail.
C8_MalformedFails ==
    (t_ret.pc # "idle"
        /\ (Len(t_jgw) # 6 \/ \E k \in 1..Len(t_jgw) : ~NumericLine(t_jgw[k])))
    => t_ret.pc = "raised"

\* C8 amended: a world file with fewer than six lines, or with a
\* non-numeric value in one of its first six lines, makes the call fail and
\* return nothing; lines after the sixth are not read, so a file whose first
\* six lines are numeric is transformed whatever follows them.
C8_ShortOrNonNumericFails ==
    t_ret.pc # "idle" =>
        IF Len(t_jgw) < 6 \/ \E k \in 1..6 : ~NumericLine(t_jgw[k])
        THEN t_ret.pc = "raised" /\ t_ret.coords = <<>>
        ELSE t_ret.pc = "returned"

\* Six lines, one of them not a number: the call failed.
C8_Witness ==
    /\ t_ret.pc = "raised"
    /\ Len(t_jgw) = 6
    /\ Len(t_pixels) >= 1

\* C11: transform_coordinates is pure with respect to its inputs: once the
\* call has returned, every dictionary of the caller's polygon_areas list is
\* what it was before the call (the pixel_coordinates list is never
\* assigned).  Line 166 assigns poly['line_value'] in the caller's
\* dictionaries, so an entry that held segments holds the flat coordinate
\* list after the call.
C11_InputsUnmodified ==
    t_ret.pc = "returned" => \A k \in 1..Len(t_polys0) : Untouched(k)

(***************************************************************************)
(* geojson_service.py: GeoJsonService.generate_geojson                     *)
(*                                                                         *)
(* A feature is [type, coordinates, name, description, polygon_area, id].  *)
(* The coordinates of a Point are [kind |-> "point", items |-> <<x, y>>];  *)
(* those of a LineString are the entry's line_value as it is handed over.  *)
(* Transformed numbers are in tenths; numbers the pixel fallback hands     *)
(* over are the prediction's integers.                                     *)
(***************************************************************************)

\* 'path' in detection_name.lower(), on the class names of the model.
IsPathName(name) == name \in {"path", "Path"}

NoFeatures == [feature_id |-> 0, features |-> <<>>]

\* feature_id += 1; features.append(create_..._feature(...))
AddFeature(acc, type, coordinates, name, image_filename, area_value) ==
    [feature_id |-> acc.feature_id + 1,
     features   |-> Append(acc.features,
                           [type         |-> type,
                            coordinates  |-> coordinates,
                            name         |-> name,
                            description  |-> image_filename,
                            polygon_area |-> area_value,
                            id           |-> acc.feature_id + 1])]

\* poly = polygon_areas[idx], with the defaults of the except clause.
NameAt(polygon_areas, idx) ==
    IF idx <= Len(polygon_areas) THEN polygon_areas[idx].name ELSE "unhealthy-tree"

AreaAt(polygon_areas, idx) ==
    IF idx <= Len(polygon_areas) THEN polygon_areas[idx].area ELSE "0.0 m2"

\* Lines 140-162: for idx, coords in enumerate(center_coordinates)
RECURSIVE PointLoop(_, _, _, _, _)
PointLoop(idx, center_coordinates, polygon_areas, image_filename, acc) ==
    IF idx > Len(center_coordinates) THEN acc
    ELSE PointLoop(idx + 1, center_coordinates, polygon_areas, image_filename,
                   IF IsPathName(NameAt(polygon_areas, idx)) THEN acc
                   ELSE AddFeature(acc, "Point",
                                   LineValue("point", center_coordinates[idx]),
                                   NameAt(polygon_areas, idx), image_filename,
                                   AreaAt(polygon_areas, idx)))

\* Lines 117-135 and 165-183: for poly in polygon_areas
RECURSIVE LineLoop(_, _, _, _)
LineLoop(k, polygon_areas, image_filename, acc) ==
    IF k > Len(polygon_areas) THEN acc
    ELSE LineLoop(k + 1, polygon_areas, image_filename,
                  IF IsPathName(polygon_areas[k].name) /\ HasLines(polygon_areas[k])
                  THEN AddFeature(acc, "LineString", polygon_areas[k].line_value,
                                  polygon_areas[k].name, image_filename,
                                  polygon_areas[k].area)
                  ELSE acc)

generate_geojson(center_coordinates, polygon_areas, image_filename, model_type) ==
    IF model_type = "winter"
    THEN LineLoop(1, polygon_areas, image_filename, NoFeatures).features
    ELSE LineLoop(1, polygon_areas, image_filename,
                  PointLoop(1, center_coordinates, polygon_areas, image_filename,
                            NoFeatures)).features

(***************************************************************************)
(* routes.py: the image loop of _run_predictions                           *)
(***************************************************************************)

\* Bound: most images in a batch.
MaxImages == 2

ImageFiles == <<"img1.jpg", "img2.jpg", "img3.jpg", "img4.jpg">>

\* What predict_image returns when it succeeds, in the shape
\* _process_detections builds: a centre for every detection, polygon_areas
\* with the non-path entries first and one path entry per group after them.
PredPool ==
    { [detections    |-> 0, center_points |-> <<>>, polygon_areas |-> <<>>],
      [detections    |-> 2,
       center_points |-> <<[class_name |-> "tree", x |-> 10, y |-> 20],
                           [class_name |-> "path", x |-> 100, y |-> 50]>>,
       polygon_areas |-> <<[name |-> "tree", area |-> "12.5 m2",
                            line_value |-> LineValue("False", <<>>)],
                           [name |-> "path", area |-> "0.0 m2",
                            line_value |-> LineValue("segments",
                                                     << <<<<10, 20>>, <<100, 50>>>> >>)]>>],
      [detections    |-> 2,
       center_points |-> <<[class_name |-> "path", x |-> 4, y |-> 1],
                           [class_name |-> "tree", x |-> 100, y |-> 50]>>,
       polygon_areas |-> <<[name |-> "tree", area |-> "3.0 m2",
                            line_value |-> LineValue("False", <<>>)],
                           [name |-> "path", area |-> "0.0 m2",
                            line_value |-> LineValue("segments",
                                                     << <<<<0, 0>>, <<4, 1>>>>,
                                                        <<<<4, 1>>, <<9, 7>>>> >>)]>>] }

\* The .jgw beside an image: absent, or one of these files.
NoJgw == [exists |-> FALSE, lines |-> <<>>]

JgwPool ==
    {NoJgw} \cup {[exists |-> TRUE, lines |-> f] :
                    f \in {UtmFile, SubSeq(UtmFile, 1, 5), [UtmFile EXCEPT ![3] = Ln(Txt_abc)]}}

\* center_coords_pixel = [[cp['x'], cp['y']] for cp in pred_result['center_points']]
center_coords_pixel(center_points) ==
    [i \in 1..Len(center_points) |-> <<center_points[i].x, center_points[i].y>>]

\* Mutation of line 236: the image's features replace the list.
Overwrite(all, features) == features

\* all_features.extend(features)
Extend(all, features) == all \o features

\* Lines 212-226 with the call's outcome r in hand: what generate_geojson is
\* given.  transformed_polygons is pred_result['polygon_areas'] in both
\* fallbacks, the list object the call worked on (r.polys after a call).
GeoArguments(jgw, r, pixels, polygon_areas) ==
    IF ~jgw.exists
    THEN [transform |-> "no jgw", coords |-> pixels, polys |-> polygon_areas]
    ELSE IF r.raised
    THEN [transform |-> "failed", coords |-> pixels, polys |-> r.polys]
    ELSE [transform |-> "done", coords |-> r.coords, polys |-> r.polys]

\* Lines 209-226.
TransformStep(jgw, pred, crs_ok) ==
    GeoArguments(jgw,
                 transform_coordinates(jgw.lines, center_coords_pixel(pred.center_points),
                                      pred.polygon_areas, crs_ok),
                 center_coords_pixel(pred.center_points), pred.polygon_areas)

\* Lines 228-238: the features of the image, none when generate_geojson raises.
FeaturesStep(geo, image_filename, model_type, geo_ok) ==
    IF geo_ok
    THEN generate_geojson(geo.coords, geo.polys, image_filename, model_type)
    ELSE <<>>

LogEntry(file, prediction, save, pred, geo, geojson, features) ==
    [file |-> file, prediction |-> prediction, save |-> save,
     centers |-> pred.center_points, polygon_areas |-> pred.polygon_areas,
     transform |-> geo.transform, geo_coords |-> geo.coords, geo_polys |-> geo.polys,
     geojson |-> geojson, features |-> features]

NoPrediction == [center_points |-> <<>>, polygon_areas |-> <<>>]

NoGeo == [transform |-> "-", coords |-> <<>>, polys |-> <<>>]

RunInit ==
    /\ r_model_type \in {"summer", "winter"}
    /\ r_n \in 0..MaxImages
    /\ r_idx = 0
    /\ all_features = <<>>
    /\ processed_images = 0
    /\ total_detections = 0
    /\ r_log = <<>>
    /\ r_pc = "loop"
    /\ r_return = NotReturned
    /\ GroupsIdle
    /\ TransformIdle
    /\ ShapeIdle
    /\ JgwIdle
    /\ PathsIdle
    /\ StepsIdle
    /\ JobsIdle

\* One pass of the loop that ends at a continue: predict_image raised
\* (lines 189-191) or returned success False (lines 193-195).
ImageNotPredicted(how) ==
    /\ r_pc = "loop" /\ r_idx < r_n
    /\ r_idx' = r_idx + 1
    /\ r_log' = Append(r_log, LogEntry(ImageFiles[r_idx + 1], how, "-", NoPrediction,
                                       NoGeo, "-", <<>>))
    /\ UNCHANGED <<r_model_type, r_n, all_features, processed_images, total_detections,
                   r_pc, r_return, gvars, tvars, svars, jvars, pvars, fvars, qvars>>

\* One whole pass of the loop for an image predict_image succeeded on.
\* save_ok, crs_ok, geo_ok: whether saving the annotated image,
\* Transformer.from_crs and generate_geojson go through.
ImagePredicted(pred, save_ok, jgw, crs_ok, geo_ok) ==
    /\ r_pc = "loop" /\ r_idx < r_n
    /\ r_idx' = r_idx + 1
    /\ processed_images' = processed_images + 1
    /\ total_detections' = total_detections + pred.detections
    /\ \E geo \in {TransformStep(jgw, pred, crs_ok)} :
         \E features \in {FeaturesStep(geo, ImageFiles[r_idx + 1], r_model_type, geo_ok)} :
            /\ all_features' = Extend(all_features, features)
            /\ r_log' = Append(r_log,
                               LogEntry(ImageFiles[r_idx + 1], "ok",
                                        IF save_ok THEN "ok" ELSE "failed", pred, geo,
                                        IF geo_ok THEN "ok" ELSE "failed", features))
    /\ UNCHANGED <<r_model_type, r_n, r_pc, r_return, gvars, tvars, svars, jvars, pvars, fvars, qvars>>

\* Lines 174-175 and 240-294: after the loop.  save_geojson_ok: whether
\* writing output.geojson goes through.
Finish(save_geojson_ok) ==
    /\ r_pc = "loop" /\ r_idx = r_n
    /\ r_pc' = "done"
    /\ r_return' =
         IF r_n = 0
         THEN [status |-> "No valid image files found in input", features |-> <<>>]
         ELSE IF processed_images = 0
         THEN [status |-> "No images were successfully processed", features |-> <<>>]
         ELSE IF ~save_geojson_ok
         THEN [status |-> "Failed to save GeoJSON", features |-> <<>>]
         ELSE [status |-> "ok", features |-> all_features]
    /\ UNCHANGED <<r_model_type, r_n, r_idx, all_features, processed_images,
                   total_detections, r_log, gvars, tvars, svars, jvars, pvars, fvars, qvars>>

RunNext ==
    \/ \E how \in {"raised", "unsuccessful"} : ImageNotPredicted(how)
    \/ \E pred \in PredPool, jgw \in JgwPool, save_ok, crs_ok, geo_ok \in BOOLEAN :
          ImagePredicted(pred, save_ok, jgw, crs_ok, geo_ok)
    \/ \E save_geojson_ok \in BOOLEAN : Finish(save_geojson_ok)

SpecRun == RunInit /\ [][RunNext]_vars

(***************************************************************************)
(* Claims about _run_predictions                                           *)
(***************************************************************************)

\* Two polygon_areas entries are the same entry.
SamePoly(p, q) ==
    /\ p.name = q.name
    /\ p.area = q.area
    /\ p.line_value.kind = q.line_value.kind
    /\ p.line_value.items = q.line_value.items

SameFeature(f, g) ==
    /\ f.type = g.type
    /\ f.description = g.description
    /\ f.id = g.id
    /\ f.name = g.name
    /\ f.polygon_area = g.polygon_area
    /\ f.coordinates.kind = g.coordinates.kind
    /\ f.coordinates.items = g.coordinates.items

SameFeatures(fs, gs) ==
    Len(fs) = Len(gs) /\ \A i \in 1..Len(fs) : SameFeature(fs[i], gs[i])

\* The features of the combined list that carry an image's file name.
FeaturesOf(file) == SelectSeq(all_features, LAMBDA f : f.description = file)

\* The features the log holds for the images gone through, in order.
RECURSIVE LoggedFeatures(_)
LoggedFeatures(log) ==
    IF log = <<>> THEN <<>>
    ELSE LoggedFeatures(SubSeq(log, 1, Len(log) - 1)) \o log[Len(log)].features

\* C9: an image whose transform_coordinates call failed, or that has no
\* .jgw, gets its features from the untransformed pixel data: the centres
\* handed to generate_geojson are the prediction's pixel centres, the
\* polygon entries are as the prediction produced them, none of them
\* transformed, and the emitted coordinates are those pixel values.
C9_PixelFallback ==
    \A j \in 1..Len(r_log) :
        (r_log[j].prediction = "ok" /\ r_log[j].transform \in {"failed", "no jgw"}) =>
            LET e == r_log[j]
            IN /\ Len(e.geo_coords) = Len(e.centers)
               /\ \A i \in 1..Len(e.centers) :
                     e.geo_coords[i] = <<e.centers[i].x, e.centers[i].y>>
               /\ Len(e.geo_polys) = Len(e.polygon_areas)
               /\ \A k \in 1..Len(e.polygon_areas) : SamePoly(e.geo_polys[k], e.polygon_areas[k])
               /\ \A i \in 1..Len(all_features) :
                     all_features[i].description = e.file =>
                        IF all_features[i].type = "Point"
                        THEN \E c \in 1..Len(e.centers) :
                                all_features[i].coordinates.items
                                    = <<e.centers[c].x, e.centers[c].y>>
                        ELSE /\ all_features[i].coordinates.kind = "segments"
                             /\ \E k \in 1..Len(e.polygon_areas) :
                                   /\ e.polygon_areas[k].line_value.kind = "segments"
                                   /\ all_features[i].coordinates.items
                                         = e.polygon_areas[k].line_value.items

\* A failed transform on an image with a path, after an image that was
\* transformed; both images have features in the list.
C9_Witness ==
    /\ Len(r_log) = 2
    /\ r_log[1].transform = "done" /\ Len(r_log[1].features) >= 1
    /\ r_log[2].transform = "failed" /\ Len(r_log[2].features) >= 1
    /\ \E k \in 1..Len(r_log[2].polygon_areas) : HasLines(r_log[2].polygon_areas[k])

\* C10: whatever fails for single images, the loop goes through every image
\* of the batch, in order, and the combined list holds, image after image,
\* exactly the features generated for each image: an image whose prediction
\* and feature generation went through has all its features there, and they
\* are in the returned output when it is written.
C10_FailuresStayLocal ==
    /\ Len(r_log) = r_idx
    /\ \A j \in 1..Len(r_log) :
          /\ r_log[j].file = ImageFiles[j]
          /\ SameFeatures(FeaturesOf(r_log[j].file), r_log[j].features)
          /\ (r_log[j].prediction = "ok" /\ r_log[j].geojson = "ok"
                /\ \E k \in 1..Len(r_log[j].polygon_areas) : HasLines(r_log[j].polygon_areas[k]))
             => \E i \in 1..Len(all_features) :
                   /\ all_features[i].description = r_log[j].file
                   /\ all_features[i].type = "LineString"
    /\ SameFeatures(all_features, LoggedFeatures(r_log))
    /\ r_pc = "done" =>
          /\ r_idx = r_n
          /\ r_return.status = "ok" => SameFeatures(r_return.features, all_features)
          /\ (\E j \in 1..Len(r_log) : r_log[j].prediction = "ok")
                => r_return.status \in {"ok", "Failed to save GeoJSON"}

\* A batch of two: the first image fails in prediction or in feature
\* generation, the second goes through with a failed image save, and the
\* output is written with the second image's features.
C10_Witness ==
    /\ r_pc = "done" /\ r_n = 2 /\ r_return.status = "ok"
    /\ r_log[1].prediction = "raised" \/ r_log[1].geojson = "failed"
    /\ r_log[2].geojson = "ok" /\ r_log[2].save = "failed"
    /\ Len(r_log[2].features) >= 1
    /\ Len(r_return.features) = Len(r_log[2].features)

\* The polygon_areas entry _process_detections appended for detection i of a
\* prediction, a non-path detection: lines 171-175 append one entry per
\* non-path detection, in detection order, before any path entry.
OwnEntry(centers, i) ==
    Cardinality({j \in 1..i : ~IsPathName(centers[j].class_name)})

\* The Point features of a log entry that carry detection i's transformed
\* centre, label and area.
PointsOf(L, i) ==
    {f \in 1..Len(L.features) :
        /\ L.features[f].type = "Point"
        /\ L.features[f].coordinates.items = L.geo_coords[i]
        /\ L.features[f].name = L.centers[i].class_name
        /\ L.features[f].polygon_area = L.polygon_areas[OwnEntry(L.centers, i)].area}

\* C12: in the branch of generate_geojson that emits points, whatever the
\* order of the path and non-path detections of an image, every non-path
\* detection has exactly one Point feature with its own transformed centre,
\* label and area, and the only features with a path name are LineStrings.
\* The point loop pairs center_coordinates[idx] with polygon_areas[idx]; the
\* centres are in detection order and polygon_areas has the non-path
\* entries first, so after a path detection the pairs are of different
\* detections.
C12_PointPerDetection ==
    r_model_type = "summer" =>
        \A e \in 1..Len(r_log) :
            LET L == r_log[e]
            IN L.geojson = "ok" =>
                 /\ \A i \in 1..Len(L.centers) :
                       ~IsPathName(L.centers[i].class_name)
                           => Cardinality(PointsOf(L, i)) = 1
                 /\ \A f \in 1..Len(L.features) :
                       IsPathName(L.features[f].name)
                           <=> L.features[f].type = "LineString"

\* C24: every LineString feature _run_predictions emits has coordinates
\* that are a flat sequence of [x, y] positions, after a transformation and
\* in the pixel fallback alike.  Only transform_coordinates flattens the
\* ((x1, y1), (x2, y2)) segments of _process_detections (lines 146-166); in
\* both fallbacks generate_geojson is given pred_result['polygon_areas'] and
\* copies the list of segment pairs into the geometry.
C24_LineStringsFlat ==
    \A e \in 1..Len(r_log) :
        \A f \in 1..Len(r_log[e].features) :
            r_log[e].features[f].type = "LineString"
                => r_log[e].features[f].coordinates.kind = "coords"

\* C26: the feature ids of the combined output.geojson are unique across
\* the batch.  generate_geojson numbers the features of every image from 1
\* and _run_predictions saves the concatenation as it is; the renumbering
\* of merge_geojson_files is never called.
C26_IdsUniqueInBatch ==
    r_return.status = "ok" =>
        \A f, g \in 1..Len(r_return.features) :
            f # g => r_return.features[f].id # r_return.features[g].id

(***************************************************************************)
(* geometry_utils.py: path shaping (predict_direction, filter_zigzag,      *)
(* smooth_path)                                                            *)
(*                                                                         *)
(* Angles are held in thousandths of a degree.  The points of the model    *)
(* differ by at most 2 in x and 1 in y, so degrees(atan2(dy, dx)) is a     *)
(* multiple of 45 (exact in floating point) or +-26.565.., +-153.434..;    *)
(* no difference of two of them lies within a thousandth of a tolerance    *)
(* of the model, so each comparison of the model is the comparison the     *)
(* floating-point code makes.  The points of the shaping pipeline differ   *)
(* by at most 3 in x and 1 in y with dx >= 0, which adds +-18.434.., and   *)
(* are filtered at tolerance 50 only.                                      *)
(***************************************************************************)

\* Bound: longest point sequence given to a shaping function.
MaxPoints == 5

PointPool == { <<0, 0>>, <<1, 0>>, <<2, 0>>, <<1, 1>>, <<0, 1>> }

\* The tolerance argument of filter_zigzag, in degrees (the default is 50).
Tolerances == {-1, 0, 45, 50, 360}

\* degrees(atan(a / b)) for a >= 0 and b > 0, where the model needs it.
Acute(a, b) ==
    IF a = 0 THEN 0
    ELSE IF a = b THEN 45000
    ELSE IF 2 * a = b THEN 26565
    ELSE IF 3 * a = b THEN 18435
    ELSE IF a = 2 * b THEN 63435
    ELSE 71565

\* degrees(atan2(dy, dx)): in (-180, 180], 0 for the zero vector.
Atan2Degrees(dy, dx) ==
    IF dx = 0 THEN (IF dy > 0 THEN 90000 ELSE IF dy < 0 THEN -90000 ELSE 0)
    ELSE IF dx > 0 THEN (IF dy >= 0 THEN Acute(dy, dx) ELSE -Acute(-dy, dx))
    ELSE IF dy >= 0 THEN 180000 - Acute(dy, -dx)
    ELSE -(180000 - Acute(-dy, -dx))

\* degrees(atan2(p2[1] - p1[1], p2[0] - p1[0]))
predict_direction(p1, p2) == Atan2Degrees(p2[2] - p1[2], p2[1] - p1[1])

\* Mutation of the test of line 91: the comparison reversed.
OutsideTolerance(direction_prev, direction_next, tolerance) ==
    Abs(direction_next - direction_prev) >= tolerance * 1000

\* abs(direction_next - direction_prev) <= tolerance
WithinTolerance(direction_prev, direction_next, tolerance) ==
    Abs(direction_next - direction_prev) <= tolerance * 1000

\* Lines 83-92.  kept holds the positions in points of the entries of
\* filtered_points, so filtered_points[-1] is points[kept[Len(kept)]].
RECURSIVE FilterFor(_, _, _, _)
FilterFor(i, points, tolerance, kept) ==
    IF i > Len(points) - 1 THEN kept
    ELSE LET prev_point    == points[kept[Len(kept)]]
             current_point == points[i]
             next_point    == points[i + 1]
         IN FilterFor(i + 1, points, tolerance,
                      IF WithinTolerance(predict_direction(prev_point, current_point),
                                         predict_direction(current_point, next_point),
                                         tolerance)
                      THEN Append(kept, i)
                      ELSE kept)

\* Mutation of line 94: the last point is not appended.
LastNotAppended(points, kept) == kept

\* filtered_points.append(points[-1])
AppendLast(points, kept) == Append(kept, Len(points))

\* Mutation of the test of line 78: only the empty list returns early.
OnlyEmptyReturnsEarly(points) == Len(points) < 1

\* if len(points) < 3: return points
ReturnsEarly(points) == Len(points) < 3

\* The positions of points that filter_zigzag returns, in order.
KeptPositions(points, tolerance) ==
    IF ReturnsEarly(points) THEN [i \in 1..Len(points) |-> i]
    ELSE AppendLast(points, FilterFor(2, points, tolerance, <<1>>))

filter_zigzag(points, tolerance) ==
    LET kept == KeptPositions(points, tolerance)
    IN [j \in 1..Len(kept) |-> points[kept[j]]]

\* list(dict.fromkeys(points)): the first occurrence of every value, in order.
RECURSIVE DictFromKeys(_, _, _)
DictFromKeys(i, points, acc) ==
    IF i > Len(points) THEN acc
    ELSE DictFromKeys(i + 1, points,
                      IF points[i] \in Range(acc) THEN acc ELSE Append(acc, points[i]))

\* What smooth_path returns.  kind "points": the list points, handed back
\* without a fit.  kind "spline": list(zip(np.int32(x_fine), np.int32(y_fine))),
\* the samples of a spline of degree k fitted to points, len(points) * 10 of
\* them; the values of the samples are left open.
Returned(points) == [kind |-> "points", points |-> points, k |-> 0, samples |-> Len(points)]

Smoothed(points, k) ==
    [kind |-> "spline", points |-> points, k |-> k, samples |-> Len(points) * 10]

Min(a, b) == IF a < b THEN a ELSE b

\* Lines 106-122 with the deduplicated list in hand.  fit_ok: whether
\* splprep and splev go through; when one raises, the except clause returns
\* points, which line 104 has rebound to the deduplicated list.
FitOrFallBack(points, fit_ok) ==
    IF Len(points) < 2 THEN Returned(points)
    ELSE IF fit_ok THEN Smoothed(points, Min(3, Len(points) - 1))
    ELSE Returned(points)

\* Mutation of the test of line 100: lists of four points go on to the fit.
ShorterThanFour(points) == Len(points) < 4

\* Mutation of the test of line 100: lists of two points go on to the
\* deduplication.
ShorterThanTwo(points) == Len(points) < 2

\* if len(points) < 5: return points
ShorterThanFive(points) == Len(points) < 5

smooth_path(points, fit_ok) ==
    IF ShorterThanFive(points) THEN Returned(points)
    ELSE FitOrFallBack(DictFromKeys(1, points, <<>>), fit_ok)

\* points = [...]; line_list.append((points[i], points[i + 1])): the
\* segments between consecutive points (_extract_path_lines, lines 219-221).
LineList(points) ==
    [i \in 1..(IF Len(points) = 0 THEN 0 ELSE Len(points) - 1) |->
        <<points[i], points[i + 1]>>]

(***************************************************************************)
(* SpecShape: a point sequence is fixed and one shaping call is made on    *)
(* it: filter_zigzag with a tolerance, smooth_path, or find_groups on the  *)
(* segments between its consecutive points.                                *)
(***************************************************************************)

\* The thresholds find_groups is called with on those segments.
ShapeThresholds == {0, 2}

ShapeInit ==
    /\ s_points \in SeqsUpTo(PointPool, MaxPoints)
    /\ s_call = NoCall
    /\ GroupsIdle
    /\ TransformIdle
    /\ RunIdle
    /\ JgwIdle
    /\ PathsIdle
    /\ StepsIdle
    /\ JobsIdle

FilterZigzag(tolerance) ==
    /\ s_call.op = "none"
    /\ s_call' = [op     |-> "filter_zigzag",
                  arg    |-> tolerance,
                  result |-> [points |-> filter_zigzag(s_points, tolerance),
                              kept   |-> KeptPositions(s_points, tolerance)]]
    /\ UNCHANGED <<s_points, gvars, tvars, rvars, jvars, pvars, fvars, qvars>>

SmoothPath(fit_ok) ==
    /\ s_call.op = "none"
    /\ s_call' = [op     |-> "smooth_path",
                  arg    |-> fit_ok,
                  result |-> smooth_path(s_points, fit_ok)]
    /\ UNCHANGED <<s_points, gvars, tvars, rvars, jvars, pvars, fvars, qvars>>

GroupLines(threshold) ==
    /\ s_call.op = "none"
    /\ s_call' = [op     |-> "find_groups",
                  arg    |-> threshold,
                  result |-> find_groups(LineList(s_points), threshold)]
    /\ UNCHANGED <<s_points, gvars, tvars, rvars, jvars, pvars, fvars, qvars>>

ShapeNext ==
    \/ \E tolerance \in Tolerances : FilterZigzag(tolerance)
    \/ \E fit_ok \in BOOLEAN : SmoothPath(fit_ok)
    \/ \E threshold \in ShapeThresholds : GroupLines(threshold)

SpecShape == ShapeInit /\ [][ShapeNext]_vars

(***************************************************************************)
(* Claims about filter_zigzag and smooth_path                              *)
(***************************************************************************)

\* C13: for every input of length >= 2 and every tolerance, the first point
\* of filter_zigzag's output is the first input point and the last output
\* point is the last input point.
C13_EndpointsKept ==
    (s_call.op = "filter_zigzag" /\ Len(s_points) >= 2) =>
        LET out == s_call.result.points
        IN /\ Len(out) >= 2
           /\ out[1] = s_points[1]
           /\ out[Len(out)] = s_points[Len(s_points)]

\* An input of five points of which the filter dropped interior ones.
C13_Witness ==
    /\ s_call.op = "filter_zigzag"
    /\ Len(s_points) = 5
    /\ Len(s_call.result.points) < 5
    /\ s_points[1] # s_points[5]

\* The angular difference of two directions, in [0, 180] degrees.
TurningAngle(direction_prev, direction_next) ==
    Min(Abs(direction_next - direction_prev), 360000 - Abs(direction_next - direction_prev))

\* The turning angle at the j-th output point: between the direction into
\* it from the output point before it and the direction out of it to the
\* input point after it.
TurningAt(j) ==
    LET kept == s_call.result.kept
    IN TurningAngle(predict_direction(s_points[kept[j - 1]], s_points[kept[j]]),
                    predict_direction(s_points[kept[j]], s_points[kept[j] + 1]))

\* The turning angle at the j-th output point along the output itself.
OutputTurningAt(j) ==
    LET out == s_call.result.points
    IN TurningAngle(predict_direction(out[j - 1], out[j]),
                    predict_direction(out[j], out[j + 1]))

FirstAt(points, v) == CHOOSE i \in 1..Len(points) : points[i] = v /\ \A j \in 1..(i - 1) : points[j] # v

\* d is points with every value's later occurrences removed.
IsDeduplicated(d, points) ==
    /\ Len(d) = Cardinality(Range(points))
    /\ Range(d) = Range(points)
    /\ \A a, b \in 1..Len(d) : a < b => FirstAt(points, d[a]) < FirstAt(points, d[b])

\* C15 as stated: smooth_path returns its input unchanged whenever fewer
\* than 5 distinct points remain after deduplication, inputs of 5 or more
\* points with fewer than 5 distinct values included.
C15_FewDistinctUnchanged ==
    (s_call.op = "smooth_path" /\ Cardinality(Range(s_points)) < 5) =>
        /\ s_call.result.kind = "points"
        /\ s_call.result.points = s_points

\* C15, with the test where the code has it: smooth_path returns its input
\* unchanged whenever the input has fewer than 5 points.  An input of 5 or
\* more points with fewer than 5 distinct values is deduplicated first; the
\* call returns the deduplicated list when a single point is left or the fit
\* raises, and otherwise the samples of a spline of degree min(3, n - 1)
\* fitted to the n distinct points.
C15_ShortUnchanged ==
    s_call.op = "smooth_path" =>
        /\ Len(s_points) < 5 =>
              s_call.result.kind = "points" /\ s_call.result.points = s_points
        /\ (Len(s_points) >= 5 /\ Cardinality(Range(s_points)) < 5) =>
              /\ IsDeduplicated(s_call.result.points, s_points)
              /\ IF Cardinality(Range(s_points)) >= 2 /\ s_call.arg
                 THEN /\ s_call.result.kind = "spline"
                      /\ s_call.result.k = Min(3, Cardinality(Range(s_points)) - 1)
                      /\ s_call.result.samples = 10 * Cardinality(Range(s_points))
                 ELSE s_call.result.kind = "points"

\* Five points, three of them distinct, fitted with a spline of degree 2.
C15_Witness ==
    /\ s_call.op = "smooth_path"
    /\ Len(s_points) = 5
    /\ Cardinality(Range(s_points)) = 3
    /\ s_call.result.kind = "spline"
    /\ s_call.result.k = 2

\* C16: when the fit raises, smooth_path returns the sequence it was called
\* with, duplicates included.  The except clause returns points, which line
\* 104 has rebound to the deduplicated list, so an input with a repeated
\* point comes back shorter.
C16_FitFailureReturnsInput ==
    (/\ s_call.op = "smooth_path"
     /\ Len(s_points) >= 5
     /\ Cardinality(Range(s_points)) >= 2
     /\ ~s_call.arg) =>
        /\ s_call.result.kind = "points"
        /\ s_call.result.points = s_points

\* C17: on an empty collection find_groups returns zero groups and
\* filter_zigzag and smooth_path each return an empty sequence; none of them
\* raises.
C17_EmptyInEmptyOut ==
    s_points = <<>> =>
        /\ s_call.op = "find_groups" => s_call.result = <<>>
        /\ s_call.op = "filter_zigzag" => s_call.result.points = <<>>
        /\ s_call.op = "smooth_path" =>
              s_call.result.kind = "points" /\ s_call.result.points = <<>>

\* find_groups has been called on the segments of an empty point list.
C17_Witness ==
    /\ s_points = <<>>
    /\ s_call.op = "find_groups"
    /\ s_call.result = <<>>

\* C20: filter_zigzag returns its input unchanged, the same points in the
\* same order, for every input of fewer than 3 points.
C20_ShortInputUnchanged ==
    (s_call.op = "filter_zigzag" /\ Len(s_points) < 3) =>
        s_call.result.points = s_points

\* Two distinct points and a tolerance no turn satisfies.
C20_Witness ==
    /\ s_call.op = "filter_zigzag"
    /\ Len(s_points) = 2
    /\ s_points[1] # s_points[2]
    /\ s_call.arg = -1
    /\ s_call.result.points = s_points

(***************************************************************************)
(* coordinate_service.py: CoordinateService.create_jgw_from_tiff           *)
(*                                                                         *)
(* A raster is its affine transform (a, b, c, d, e, f, in tenths) and its  *)
(* CRS.  A CRS is None (present FALSE) or carries what the call asks of    *)
(* it: how to_epsg() ends ("code" with the code, "none" when it returns    *)
(* None, "raises"), the text str(crs) yields, and whether its coordinates  *)
(* are already longitude and latitude, in which case the transformer to    *)
(* EPSG:4326 leaves them as they are.                                      *)
(***************************************************************************)

Str_EPSG_4326 == <<"E", "P", "S", "G", ":", "4", "3", "2", "6">>
Str_EPSG_25832 == <<"E", "P", "S", "G", ":", "2", "5", "8", "3", "2">>
Str_Proj_WGS84 == <<"+", "p", "r", "o", "j", "=", "l", "o", "n", "g", "l", "a", "t", " ", "+", "d", "a", "t", "u", "m", "=", "W", "G", "S", "8", "4">>
Str_Proj_Utm == <<"+", "p", "r", "o", "j", "=", "u", "t", "m", " ", "+", "z", "o", "n", "e", "=", "3", "2">>
Str_epsg_4326 == <<"e", "p", "s", "g", ":", "4", "3", "2", "6">>
Str_wgs84 == <<"w", "g", "s", "8", "4">>

UpperChars == <<"A", "B", "C", "D", "E", "F", "G", "H", "I", "J", "K", "L", "M",
                "N", "O", "P", "Q", "R", "S", "T", "U", "V", "W", "X", "Y", "Z">>

LowerChars == <<"a", "b", "c", "d", "e", "f", "g", "h", "i", "j", "k", "l", "m",
                "n", "o", "p", "q", "r", "s", "t", "u", "v", "w", "x", "y", "z">>

\* str.lower()
Lower(text) ==
    [i \in 1..Len(text) |->
        IF \E u \in 1..26 : UpperChars[u] = text[i]
        THEN LowerChars[CHOOSE u \in 1..26 : UpperChars[u] = text[i]]
        ELSE text[i]]

\* needle in text
Contains(text, needle) ==
    \E i \in 1..(Len(text) - Len(needle) + 1) :
        SubSeq(text, i, i + Len(needle) - 1) = needle

NoCrs == [present |-> FALSE, how |-> "none", code |-> 0, text |-> <<>>, lonlat |-> FALSE]

Crs(how, code, text, lonlat) ==
    [present |-> TRUE, how |-> how, code |-> code, text |-> text, lonlat |-> lonlat]

\* No CRS; EPSG:4326 and EPSG:25832 with their codes; WGS84 and UTM given by
\* a PROJ string for which to_epsg() raises, and for which it returns None.
CrsPool ==
    { NoCrs,
      Crs("code", 4326, Str_EPSG_4326, TRUE),
      Crs("code", 25832, Str_EPSG_25832, FALSE),
      Crs("raises", 0, Str_Proj_WGS84, TRUE),
      Crs("raises", 0, Str_Proj_Utm, FALSE),
      Crs("none", 0, Str_Proj_WGS84, TRUE),
      Crs("none", 0, Str_Proj_Utm, FALSE) }

Affine6(a, b, c, d, e, f) == [a |-> a, b |-> b, c |-> c, d |-> d, e |-> e, f |-> f]

\* North-up and rotated transforms, in degrees and in UTM metres.
TransformPool ==
    { Affine6(2, 0, 52, 0, -2, 509),
      Affine6(20, 30, 52, 10, -2, 509),
      Affine6(2, 0, 6500000, 0, -2, 58000000),
      Affine6(20, 30, 6500000, 10, -2, 58000000),
      Affine6(685000, 0, 5000000, 0, -111320, 58000000),
      Affine6(685000, 1, 5685000, 1, -222640, 57888680),
      Affine6(10, 0, 0, 0, 10, 0),
      Affine6(-5, 7, -13, 4, 1205, 90) }

\* Lines 43-51: is_wgs84.  crs_epsg == 4326 is False when to_epsg() returns
\* None; the text is looked at only when to_epsg() raises.
IsWgs84(crs) ==
    IF ~crs.present THEN FALSE
    ELSE IF crs.how = "raises"
    THEN Contains(Lower(crs.text), Str_epsg_4326) \/ Contains(Lower(crs.text), Str_wgs84)
    ELSE crs.how = "code" /\ crs.code = 4326

\* Transformer.from_crs(crs, "EPSG:4326", always_xy=True).transform(x, y)
TransformToWgs84(crs, x, y) == IF crs.lonlat THEN <<x, y>> ELSE Reproject(x, y)

\* Lines 57-82: the six values of the reprojected branch.
Reprojected(crs, transform) ==
    LET origin == TransformToWgs84(crs, transform.c, transform.f)
        right  == TransformToWgs84(crs, transform.c + transform.a, transform.f)
        bottom == TransformToWgs84(crs, transform.c, transform.f + transform.e)
    IN [transform_a |-> right[1] - origin[1],
        transform_d |-> 0,
        transform_b |-> 0,
        transform_e |-> bottom[2] - origin[2],
        transform_c |-> origin[1],
        transform_f |-> origin[2]]

\* Lines 85-90: the raster's own values.
Copied(transform) ==
    [transform_a |-> transform.a,
     transform_d |-> transform.d,
     transform_b |-> transform.b,
     transform_e |-> transform.e,
     transform_c |-> transform.c,
     transform_f |-> transform.f]

RECURSIVE IntDigits(_)
IntDigits(n) ==
    IF n < 10 THEN <<DigitChars[n + 1]>>
    ELSE Append(IntDigits(n \div 10), DigitChars[(n % 10) + 1])

\* f"{value}" on a float with one fractional digit, value in tenths.
FormatFloat(v) ==
    (IF v < 0 THEN <<"-">> ELSE <<>>)
        \o IntDigits(Abs(v) \div 10) \o <<".", DigitChars[(Abs(v) % 10) + 1]>>

\* Mutation of lines 94-99: transform_b written before transform_d.
WriteJgwRowMajor(w) ==
    <<Ln(FormatFloat(w.transform_a)), Ln(FormatFloat(w.transform_b)),
      Ln(FormatFloat(w.transform_d)), Ln(FormatFloat(w.transform_e)),
      Ln(FormatFloat(w.transform_c)), Ln(FormatFloat(w.transform_f))>>

\* Lines 94-99: the six lines of the file.
WriteJgw(w) ==
    <<Ln(FormatFloat(w.transform_a)), Ln(FormatFloat(w.transform_d)),
      Ln(FormatFloat(w.transform_b)), Ln(FormatFloat(w.transform_e)),
      Ln(FormatFloat(w.transform_c)), Ln(FormatFloat(w.transform_f))>>

\* The call.  crs_ok: whether Transformer.from_crs returns; when it raises
\* the call raises and no file is written.
create_jgw_from_tiff(raster, crs_ok) ==
    IF raster.crs.present /\ ~IsWgs84(raster.crs)
    THEN IF crs_ok
         THEN [pc      |-> "written",
               lines   |-> WriteJgw(Reprojected(raster.crs, raster.transform)),
               written |-> Reprojected(raster.crs, raster.transform)]
         ELSE [pc |-> "raised", lines |-> <<>>, written |-> <<>>]
    ELSE [pc      |-> "written",
          lines   |-> WriteJgw(Copied(raster.transform)),
          written |-> Copied(raster.transform)]

(***************************************************************************)
(* SpecJgw: create_jgw_from_tiff is called on a raster, and                *)
(* transform_coordinates then reads the file it wrote.                     *)
(***************************************************************************)

JgwInit ==
    /\ j_raster \in [transform : TransformPool, crs : CrsPool]
    /\ j_out = NoFile
    /\ j_read = NotRead
    /\ GroupsIdle
    /\ TransformIdle
    /\ RunIdle
    /\ ShapeIdle
    /\ PathsIdle
    /\ StepsIdle
    /\ JobsIdle

CreateJgw(crs_ok) ==
    /\ j_out.pc = "idle"
    /\ j_out' = create_jgw_from_tiff(j_raster, crs_ok)
    /\ UNCHANGED <<j_raster, j_read, gvars, tvars, rvars, svars, pvars, fvars, qvars>>

\* Lines 119-128 of transform_coordinates on the file written.
ReadJgw ==
    /\ j_out.pc = "written"
    /\ ~j_read.done
    /\ j_read' = [done |-> TRUE, co |-> ParseJgw(j_out.lines)]
    /\ UNCHANGED <<j_raster, j_out, gvars, tvars, rvars, svars, pvars, fvars, qvars>>

JgwNext ==
    \/ \E crs_ok \in BOOLEAN : CreateJgw(crs_ok)
    \/ ReadJgw

SpecJgw == JgwInit /\ [][JgwNext]_vars

(***************************************************************************)
(* Claims about create_jgw_from_tiff                                       *)
(***************************************************************************)

\* The CRS is WGS84 by its code, or by its text when to_epsg() gives no code.
RecognisedWgs84(crs) ==
    /\ crs.present
    /\ \/ crs.how = "code" /\ crs.code = 4326
       \/ /\ crs.how # "code"
          /\ \/ Contains(Lower(crs.text), Str_epsg_4326)
             \/ Contains(Lower(crs.text), Str_wgs84)

\* C18: create_jgw_from_tiff writes the raster's own six coefficients
\* whenever the CRS is WGS84, recognised by the code 4326 or, when to_epsg()
\* yields no code, by a text containing 'epsg:4326' or 'wgs84'; for any
\* other CRS it writes D = B = 0, the reprojected origin as C and F and the
\* reprojected one-pixel deltas as A and E.  The text is consulted only in
\* the except clause, so a WGS84 CRS for which to_epsg() returns None is
\* taken through the reprojection and its D and B are written as 0.
C18_Wgs84CopiedElseReprojected ==
    (j_out.pc = "written" /\ j_raster.crs.present) =>
        IF RecognisedWgs84(j_raster.crs)
        THEN j_out.written = Copied(j_raster.transform)
        ELSE j_out.written = Reprojected(j_raster.crs, j_raster.transform)

\* C19: the six lines create_jgw_from_tiff writes are A, D, B, E, C, F in
\* that order and transform_coordinates reads them in that order: the
\* coefficients parsed from the file are the values written, each in its
\* own role.
C19_RoundTrip ==
    j_read.done =>
        /\ Len(j_out.lines) = 6
        /\ ~j_read.co.raised
        /\ j_read.co.A = j_out.written.transform_a
        /\ j_read.co.D = j_out.written.transform_d
        /\ j_read.co.B = j_out.written.transform_b
        /\ j_read.co.E = j_out.written.transform_e
        /\ j_read.co.C = j_out.written.transform_c
        /\ j_read.co.F = j_out.written.transform_f

\* A rotated transform with six different values, one of them negative,
\* written and read back.
C19_Witness ==
    /\ j_read.done
    /\ j_read.co.B # j_read.co.D
    /\ j_read.co.B # 0 /\ j_read.co.D # 0
    /\ j_read.co.A < 0
    /\ Cardinality({j_read.co.A, j_read.co.D, j_read.co.B,
                    j_read.co.E, j_read.co.C, j_read.co.F}) = 6

(***************************************************************************)
(* prediction_service.py: PredictionService._process_detections            *)
(*                                                                         *)
(* A detection is what the loop of lines 135-175 uses of it: its class     *)
(* name, the centre of its box, its area text and, for a path, the points  *)
(* of the centreline _extract_path_lines found (none when it failed).      *)
(***************************************************************************)

\* Bound: most detections in one image.
MaxDetections == 2

Detection(class_name, x, y, area, centreline) ==
    [class_name |-> class_name, x |-> x, y |-> y, area |-> area, centreline |-> centreline]

\* Two trees; paths with no centreline, one segment, a straight chain of
\* three segments, two bends, and a centreline whose points all truncate to
\* the same pixel.
DetectionPool ==
    { Detection("tree", 10, 20, "12.5 m2", <<>>),
      Detection("unhealthy-tree", 30, 5, "3.0 m2", <<>>),
      Detection("path", 4, 1, "7.0 m2", <<>>),
      Detection("path", 1, 0, "7.0 m2", << <<0, 0>>, <<1, 0>> >>),
      Detection("path", 2, 0, "7.0 m2", << <<0, 0>>, <<1, 0>>, <<2, 0>>, <<3, 0>> >>),
      Detection("path", 2, 1, "7.0 m2", << <<1, 0>>, <<2, 1>>, <<3, 0>> >>),
      Detection("Path", 0, 1, "7.0 m2", << <<0, 0>>, <<0, 1>>, <<1, 0>> >>),
      Detection("path", 7, 1, "7.0 m2", << <<7, 1>>, <<7, 1>>, <<7, 1>> >>) }

\* threshold = h / 30, for images 30 and 60 pixels high.
PathThresholds == {1, 2}

\* Lines 135-175: the centre of every detection, in detection order.
CenterPoints(dets) ==
    [i \in 1..Len(dets) |-> [class_name |-> dets[i].class_name, x |-> dets[i].x, y |-> dets[i].y]]

\* Lines 171-175: an entry for every detection that is no path, in order.
RECURSIVE NonPathEntries(_)
NonPathEntries(dets) ==
    IF dets = <<>> THEN <<>>
    ELSE IF IsPathName(Head(dets).class_name) THEN NonPathEntries(Tail(dets))
    ELSE <<[name |-> Head(dets).class_name, area |-> Head(dets).area,
            line_value |-> LineValue("False", <<>>)]>> \o NonPathEntries(Tail(dets))

\* Lines 168-170: all_path_points, the segments of every path detection.
RECURSIVE AllPathPoints(_)
AllPathPoints(dets) ==
    IF dets = <<>> THEN <<>>
    ELSE IF IsPathName(Head(dets).class_name)
    THEN LineList(Head(dets).centreline) \o AllPathPoints(Tail(dets))
    ELSE AllPathPoints(Tail(dets))

\* points.extend(seg) for every segment of the group
RECURSIVE collect_points(_)
collect_points(group) ==
    IF group = <<>> THEN <<>> ELSE Head(group) \o collect_points(Tail(group))

\* (point[0], point[1]) <= (q[0], q[1]), the order of the sort key.
KeyLE(p, q) == p[1] < q[1] \/ (p[1] = q[1] /\ p[2] <= q[2])

\* sorted(): p goes after the last element whose key is not above its own.
RECURSIVE InsertSorted(_, _)
InsertSorted(sorted, p) ==
    IF sorted = <<>> THEN <<p>>
    ELSE IF KeyLE(sorted[Len(sorted)], p) THEN Append(sorted, p)
    ELSE Append(InsertSorted(SubSeq(sorted, 1, Len(sorted) - 1), p), sorted[Len(sorted)])

RECURSIVE SortFrom(_, _, _)
SortFrom(i, points, sorted) ==
    IF i > Len(points) THEN sorted
    ELSE SortFrom(i + 1, points, InsertSorted(sorted, points[i]))

\* Mutation of sort_points: the points are left in the order collected.
NotSorted(points) == points

\* sorted(points, key=lambda point: (point[0], point[1]))
sort_points(points) == SortFrom(1, points, <<>>)

\* list(zip(np.int32(x_fine), np.int32(y_fine))) as points: the call leaves
\* the sample values open, and here every fitted point stands for the
\* ten samples nearest to it, the first and the last sample being the first
\* and the last fitted point.
SmoothPoints(smooth) ==
    IF smooth.kind = "points" THEN smooth.points
    ELSE [i \in 1..smooth.samples |-> smooth.points[((i - 1) \div 10) + 1]]

\* Mutation of lines 189-192: every point starts a segment to itself.
ToDegenerateSegments(smooth_points_list) ==
    [i \in 1..Len(smooth_points_list) |-> <<smooth_points_list[i], smooth_points_list[i]>>]

\* Lines 187-192: for i in range(len(smooth_points_list) - 1)
ToLineSegments(smooth_points_list) ==
    [i \in 1..(IF Len(smooth_points_list) = 0 THEN 0 ELSE Len(smooth_points_list) - 1) |->
        <<smooth_points_list[i], smooth_points_list[i + 1]>>]

\* Lines 181-197 for one group.  fit_ok: whether the spline fit of
\* smooth_path goes through for this group.
ShapeGroup(group, fit_ok) ==
    [group           |-> group,
     sorted_points   |-> sort_points(collect_points(group)),
     filtered_points |-> filter_zigzag(sort_points(collect_points(group)), 50),
     smooth_points   |-> SmoothPoints(smooth_path(
                             filter_zigzag(sort_points(collect_points(group)), 50), fit_ok)),
     line_list       |-> ToLineSegments(SmoothPoints(smooth_path(
                             filter_zigzag(sort_points(collect_points(group)), 50), fit_ok)))]

\* polygon_areas.append({'path': '0.0 m2', 'line_value': line_list})
PathEntry(shaped) ==
    [name |-> "path", area |-> "0.0 m2",
     line_value |-> LineValue("segments", shaped.line_list)]

\* Mutation of lines 180-197: one entry for all groups together.
OnePathForAll(path_groups, failing) ==
    IF path_groups = <<>> THEN <<>>
    ELSE <<ShapeGroup(path_groups[1], 1 \notin failing)>>

\* Lines 178-197: for group in path_groups.  failing: the groups, by
\* position, whose spline fit raises.
ShapeGroups(path_groups, failing) ==
    [g \in 1..Len(path_groups) |-> ShapeGroup(path_groups[g], g \notin failing)]

\* The call: what it returns and, with it, the lists it built on the way.
process_detections(dets, threshold, failing) ==
    [pc              |-> "returned",
     center_points   |-> CenterPoints(dets),
     all_path_points |-> AllPathPoints(dets),
     path_groups     |-> find_groups(AllPathPoints(dets), threshold),
     paths           |-> ShapeGroups(find_groups(AllPathPoints(dets), threshold), failing),
     polygon_areas   |->
         NonPathEntries(dets)
             \o [g \in 1..Len(ShapeGroups(find_groups(AllPathPoints(dets), threshold), failing)) |->
                    PathEntry(ShapeGroups(find_groups(AllPathPoints(dets), threshold),
                                          failing)[g])]]

(***************************************************************************)
(* SpecPaths: _process_detections is called on the detections of an image  *)
(* and generate_geojson on the pixel data it returned.                     *)
(***************************************************************************)

PathsInit ==
    /\ p_detections \in SeqsUpTo(DetectionPool, MaxDetections)
    /\ p_out = NotProcessed
    /\ p_features = NotGenerated
    /\ GroupsIdle
    /\ TransformIdle
    /\ RunIdle
    /\ ShapeIdle
    /\ JgwIdle
    /\ StepsIdle
    /\ JobsIdle

ProcessDetections(threshold, failing) ==
    /\ p_out.pc = "idle"
    /\ p_out' = process_detections(p_detections, threshold, failing)
    /\ UNCHANGED <<p_detections, p_features, gvars, tvars, rvars, svars, jvars, fvars, qvars>>

GeneratePathFeatures(model_type) ==
    /\ p_out.pc = "returned"
    /\ ~p_features.done
    /\ p_features' =
         [done       |-> TRUE,
          model_type |-> model_type,
          features   |-> generate_geojson(center_coords_pixel(p_out.center_points),
                                          p_out.polygon_areas, "img1.jpg", model_type)]
    /\ UNCHANGED <<p_detections, p_out, gvars, tvars, rvars, svars, jvars, fvars, qvars>>

PathsNext ==
    \/ \E threshold \in PathThresholds, failing \in SUBSET (1..2) :
          ProcessDetections(threshold, failing)
    \/ \E model_type \in {"summer", "winter"} : GeneratePathFeatures(model_type)

SpecPaths == PathsInit /\ [][PathsNext]_vars

(***************************************************************************)
(* Claims about _process_detections                                        *)
(***************************************************************************)

Max(a, b) == IF a > b THEN a ELSE b

\* C21: the segment reconstruction turns a final point sequence of m points
\* into exactly max(m - 1, 0) segments, the i-th being (point i, point
\* i + 1), so each segment ends where the next one starts.
C21_ConsecutivePairs ==
    p_out.pc = "returned" =>
        \A g \in 1..Len(p_out.paths) :
            LET pts == p_out.paths[g].smooth_points
                ll  == p_out.paths[g].line_list
            IN /\ Len(ll) = Max(Len(pts) - 1, 0)
               /\ \A i \in 1..Len(ll) : ll[i] = <<pts[i], pts[i + 1]>>
               /\ \A i \in 1..(Len(ll) - 1) : ll[i][2] = ll[i + 1][1]

\* A path of four points that are all different, in three segments.
C21_Witness ==
    /\ p_out.pc = "returned"
    /\ \E g \in 1..Len(p_out.paths) :
          /\ Len(p_out.paths[g].smooth_points) = 4
          /\ Cardinality(Range(p_out.paths[g].smooth_points)) = 4
          /\ Len(p_out.paths[g].line_list) = 3

\* The path detections among the detections of the image.
PathDetections == {i \in 1..Len(p_detections) : IsPathName(p_detections[i].class_name)}

\* The entries of polygon_areas that follow those of the non-path detections.
PathEntries ==
    SubSeq(p_out.polygon_areas, Len(p_detections) - Cardinality(PathDetections) + 1,
           Len(p_out.polygon_areas))

\* C22: _process_detections appends exactly one path entry per group that
\* find_groups returned, as many entries as groups and not as path
\* detections, each with the label 'path' and the zero-area placeholder.
C22_OneEntryPerGroup ==
    p_out.pc = "returned" =>
        /\ Len(PathEntries) = Len(p_out.path_groups)
        /\ p_out.path_groups = find_groups(p_out.all_path_points, 1)
              \/ p_out.path_groups = find_groups(p_out.all_path_points, 2)
        /\ \A k \in 1..Len(PathEntries) :
              /\ PathEntries[k].name = "path"
              /\ PathEntries[k].area = "0.0 m2"
              /\ PathEntries[k].line_value.kind = "segments"
              /\ PathEntries[k].line_value.items = p_out.paths[k].line_list
        /\ \A k \in 1..(Len(p_out.polygon_areas) - Len(PathEntries)) :
              ~IsPathName(p_out.polygon_areas[k].name)

\* Two path detections whose segments make one group, and so one entry.
C22_Witness ==
    /\ p_out.pc = "returned"
    /\ Cardinality(PathDetections) = 2
    /\ Len(p_out.path_groups) = 1
    /\ Len(PathEntries) = 1

\* The LineString features among the features generated.
LineStrings == {f \in 1..Len(p_features.features) : p_features.features[f].type = "LineString"}

\* C25: every group gives a path with at least one line segment and so
\* exactly one LineString feature, whatever the group holds, a group whose
\* endpoints all fall on one point included.
C25_EveryGroupALineString ==
    /\ p_out.pc = "returned" =>
          \A g \in 1..Len(p_out.paths) : Len(p_out.paths[g].line_list) >= 1
    /\ p_features.done => Cardinality(LineStrings) = Len(p_out.path_groups)

\* A group of the one segment from a point to itself, beside another group,
\* and the features generated.
C25_Witness ==
    /\ p_features.done
    /\ Len(p_out.path_groups) = 2
    /\ \E g \in 1..2 :
          /\ p_out.path_groups[g] = << << <<7, 1>>, <<7, 1>> >> >>
          /\ p_out.paths[g].line_list = << << <<7, 1>>, <<7, 1>> >> >>
    /\ Cardinality(LineStrings) = 2

\* The point filter_zigzag has kept last when it comes to position i of the
\* sorted points S.
LastKept(S, i) ==
    LET kept == FilterFor(2, SubSeq(S, 1, i), 50, <<1>>)
    IN S[kept[Len(kept)]]

\* A vector from a point to one that is not before it in the sort order.
Forward(p, q) == q[1] - p[1] > 0 \/ (q[1] - p[1] = 0 /\ q[2] - p[2] >= 0)

\* A direction in (-90, 90] degrees.
InRightHalf(direction) == -90000 < direction /\ direction <= 90000

\* C27: in the pipeline filter_zigzag gets the output of sort_points, so
\* both vectors of every test, last kept point -> current point and current
\* point -> next point, have dx > 0 or dx = 0 and dy >= 0; both directions
\* lie in (-90, 90] degrees and abs(direction_next - direction_prev) is the
\* turning angle itself: no point is dropped for a wrap at +-180 degrees.
C27_NoWrapAfterSort ==
    p_out.pc = "returned" =>
        \A g \in 1..Len(p_out.paths) :
            LET S == p_out.paths[g].sorted_points
            IN \A i \in 2..(Len(S) - 1) :
                  LET direction_prev == predict_direction(LastKept(S, i), S[i])
                      direction_next == predict_direction(S[i], S[i + 1])
                  IN /\ Forward(LastKept(S, i), S[i])
                     /\ Forward(S[i], S[i + 1])
                     /\ InRightHalf(direction_prev)
                     /\ InRightHalf(direction_next)
                     /\ Abs(direction_next - direction_prev)
                           = TurningAngle(direction_prev, direction_next)

\* A group collected out of order, from two detections, with a point that
\* the filter dropped at a turn of more than 50 degrees.
C27_Witness ==
    /\ p_out.pc = "returned"
    /\ \E g \in 1..Len(p_out.paths) :
          /\ collect_points(p_out.paths[g].group) # p_out.paths[g].sorted_points
          /\ Len(p_out.paths[g].filtered_points) < Len(p_out.paths[g].sorted_points)
          /\ Len(p_out.paths[g].sorted_points) >= 6

(***************************************************************************)
(* SpecSteps: find_groups statement by statement.  f_frame holds the       *)
(* locals of the call and pc, the statement it is at: "for" (line 36),     *)
(* "while" (line 45), "scan" (line 47) or "returned" (line 55).            *)
(* f_appended records every segment put on a queue, by deque([segment])   *)
(* or by queue.append(seg).  The function is synchronous and single-       *)
(* threaded: the interpreter takes the next statement as long as there is  *)
(* one, which is weak fairness of the next-state action.                   *)
(***************************************************************************)

\* The segments the lists of the stepwise run are drawn from.
StepPool ==
    { <<<<0, 0>>, <<1, 0>>>>,
      <<<<1, 0>>, <<2, 0>>>>,
      <<<<4, 1>>, <<5, 1>>>>,
      <<<<7, 1>>, <<7, 1>>>> }

StepThresholds == {0, 2}

\* Mutation of line 42: the segment a group starts from is not recorded.
StartNotVisited(visited, segment) == visited

\* visited.add(segment)
StartVisited(visited, segment) == visited \cup {segment}

StepsInit ==
    /\ f_segments \in SeqsUpTo(StepPool, MaxSegs)
    /\ f_threshold \in StepThresholds
    /\ f_frame = [NotCalled EXCEPT !.pc = "for"]
    /\ f_appended = <<>>
    /\ GroupsIdle
    /\ TransformIdle
    /\ RunIdle
    /\ ShapeIdle
    /\ JgwIdle
    /\ PathsIdle
    /\ JobsIdle

\* Lines 36-39: the next segment is in visited; continue.
ForContinue ==
    /\ f_frame.pc = "for" /\ f_frame.i < Len(f_segments)
    /\ OuterSkip(f_segments[f_frame.i + 1], f_frame.visited)
    /\ f_frame' = [f_frame EXCEPT !.i = f_frame.i + 1]
    /\ UNCHANGED <<f_segments, f_threshold, f_appended,
                   gvars, tvars, rvars, svars, jvars, pvars, qvars>>

\* Lines 36-43: the next segment starts a group and its queue.
ForStartGroup ==
    /\ f_frame.pc = "for" /\ f_frame.i < Len(f_segments)
    /\ ~OuterSkip(f_segments[f_frame.i + 1], f_frame.visited)
    /\ \E segment \in {f_segments[f_frame.i + 1]} :
          /\ f_frame' = [f_frame EXCEPT !.i = f_frame.i + 1,
                                        !.group = <<segment>>,
                                        !.visited = StartVisited(f_frame.visited, segment),
                                        !.queue = <<segment>>,
                                        !.pc = "while"]
          /\ f_appended' = Append(f_appended, segment)
    /\ UNCHANGED <<f_segments, f_threshold,
                   gvars, tvars, rvars, svars, jvars, pvars, qvars>>

\* Lines 45-46: current_segment = queue.popleft()
PopLeft ==
    /\ f_frame.pc = "while" /\ f_frame.queue # <<>>
    /\ f_frame' = [f_frame EXCEPT !.current_segment = Head(f_frame.queue),
                                  !.queue = Tail(f_frame.queue),
                                  !.k = 0,
                                  !.pc = "scan"]
    /\ UNCHANGED <<f_segments, f_threshold, f_appended,
                   gvars, tvars, rvars, svars, jvars, pvars, qvars>>

\* Lines 47-51: seg is not in visited and close to current_segment.
ScanAdd ==
    /\ f_frame.pc = "scan" /\ f_frame.k < Len(f_segments)
    /\ \E seg \in {f_segments[f_frame.k + 1]} :
          /\ seg \notin f_frame.visited
          /\ are_connected_or_close(f_frame.current_segment, seg, f_threshold)
          /\ f_frame' = [f_frame EXCEPT !.k = f_frame.k + 1,
                                        !.visited = f_frame.visited \cup {seg},
                                        !.group = Append(f_frame.group, seg),
                                        !.queue = Append(f_frame.queue, seg)]
          /\ f_appended' = Append(f_appended, seg)
    /\ UNCHANGED <<f_segments, f_threshold,
                   gvars, tvars, rvars, svars, jvars, pvars, qvars>>

\* Lines 47-48: seg is in visited or not close; the scan goes on.
ScanPass ==
    /\ f_frame.pc = "scan" /\ f_frame.k < Len(f_segments)
    /\ \E seg \in {f_segments[f_frame.k + 1]} :
          ~(/\ seg \notin f_frame.visited
            /\ are_connected_or_close(f_frame.current_segment, seg, f_threshold))
    /\ f_frame' = [f_frame EXCEPT !.k = f_frame.k + 1]
    /\ UNCHANGED <<f_segments, f_threshold, f_appended,
                   gvars, tvars, rvars, svars, jvars, pvars, qvars>>

\* Line 47: the scan has gone through segments; back to the test of line 45.
ScanEnd ==
    /\ f_frame.pc = "scan" /\ f_frame.k = Len(f_segments)
    /\ f_frame' = [f_frame EXCEPT !.pc = "while"]
    /\ UNCHANGED <<f_segments, f_threshold, f_appended,
                   gvars, tvars, rvars, svars, jvars, pvars, qvars>>

\* Lines 45 and 53: the queue is empty; groups.append(group)
GroupsAppend ==
    /\ f_frame.pc = "while" /\ f_frame.queue = <<>>
    /\ f_frame' = [f_frame EXCEPT !.groups = Append(f_frame.groups, f_frame.group),
                                  !.pc = "for"]
    /\ UNCHANGED <<f_segments, f_threshold, f_appended,
                   gvars, tvars, rvars, svars, jvars, pvars, qvars>>

\* Lines 36 and 55: the outer loop is through; return groups
ReturnGroups ==
    /\ f_frame.pc = "for" /\ f_frame.i = Len(f_segments)
    /\ f_frame' = [f_frame EXCEPT !.pc = "returned"]
    /\ UNCHANGED <<f_segments, f_threshold, f_appended,
                   gvars, tvars, rvars, svars, jvars, pvars, qvars>>

StepsNext ==
    \/ ForContinue
    \/ ForStartGroup
    \/ PopLeft
    \/ ScanAdd
    \/ ScanPass
    \/ ScanEnd
    \/ GroupsAppend
    \/ ReturnGroups

SpecSteps == StepsInit /\ [][StepsNext]_vars /\ WF_vars(StepsNext)

(***************************************************************************)
(* Claims about the run of find_groups                                     *)
(***************************************************************************)

\* No segment value was put on a queue twice, and the segments put on a
\* queue are the visited ones.
AppendedOnce ==
    /\ \A a, b \in 1..Len(f_appended) : a # b => f_appended[a] # f_appended[b]
    /\ Range(f_appended) = f_frame.visited

\* At the return the outer loop has considered every input segment, no
\* queue holds a segment, every input value was on a queue and the groups
\* are those of find_groups.
ReturnedAfterAll ==
    f_frame.pc = "returned" =>
        /\ f_frame.i = Len(f_segments)
        /\ f_frame.queue = <<>>
        /\ Range(f_appended) = Range(f_segments)
        /\ f_frame.groups = find_groups(f_segments, f_threshold)

\* C28: find_groups terminates on every finite segment list: each distinct
\* segment is added to the visited set and put on a queue at most once,
\* every queue is eventually drained, and the function returns after the
\* outer loop has considered every input segment.
C28_Terminates ==
    /\ []AppendedOnce
    /\ []ReturnedAfterAll
    /\ (f_frame.queue # <<>>) ~> (f_frame.queue = <<>>)
    /\ <>(f_frame.pc = "returned")

\* A returned call on three segments, one of them twice in the list, that
\* made one group of the two values by way of the queue.
C28_Witness ==
    /\ f_frame.pc = "returned"
    /\ Len(f_segments) = 3
    /\ Cardinality(Range(f_segments)) = 2
    /\ Len(f_frame.groups) = 1
    /\ Len(f_appended) = 2

(***************************************************************************)
(* SpecJobs: two /predict requests with ZIP uploads.  The development      *)
(* server of run.py serves every request in a thread of its own, so the    *)
(* steps of the two handlers interleave; the clock advances between them.  *)
(* A folder is [dirs, files]: the job directories under it and the files   *)
(* in them, each file with the request that wrote it.                      *)
(***************************************************************************)

\* Bound: the last tick of the clock.
MaxTicks == 3

\* Ticks of the clock in one second: datetime.now() is finer than the
\* seconds strftime prints.
TicksPerSecond == 2

Requests == {1, 2}

\* The image names in an uploaded archive.
ArchivePool == {{"a.jpg"}, {"a.jpg", "b.jpg"}, {"c.jpg"}}

\* datetime.now().strftime("%Y%m%d_%H%M%S"): the time cut to the second.
strftime(t) == t \div TicksPerSecond

\* os.makedirs(path, exist_ok=True): an existing directory is kept as it is.
ensure_directory(folder, job_id) == [folder EXCEPT !.dirs = folder.dirs \cup {job_id}]

\* The files of a job directory.
listdir(folder, job_id) == {f \in folder.files : f.job_id = job_id}

\* Files written into a job directory; a file of the same name is replaced.
WriteFiles(folder, job_id, new) ==
    [folder EXCEPT !.files =
        {f \in folder.files : ~(f.job_id = job_id /\ \E g \in new : g.name = f.name)}
            \cup new]

Received == [pc |-> "received", job_id |-> -1, read |-> {}]

JobsInit ==
    /\ now = 0
    /\ q_upload \in [Requests -> ArchivePool]
    /\ q_request = [r \in Requests |-> Received]
    /\ temp_folder = NoFolder
    /\ output_folder = NoFolder
    /\ GroupsIdle
    /\ TransformIdle
    /\ RunIdle
    /\ ShapeIdle
    /\ JgwIdle
    /\ PathsIdle
    /\ StepsIdle

Tick ==
    /\ now < MaxTicks
    /\ now' = now + 1
    /\ UNCHANGED <<q_upload, q_request, temp_folder, output_folder,
                   gvars, tvars, rvars, svars, jvars, pvars, fvars>>

\* predict, lines 70-73: the job id and the two job directories.
CreateJobDirectories(r) ==
    /\ q_request[r].pc = "received"
    /\ \E job_id \in {strftime(now)} :
          /\ q_request' = [q_request EXCEPT ![r].pc = "created", ![r].job_id = job_id]
          /\ temp_folder' = ensure_directory(temp_folder, job_id)
          /\ output_folder' = ensure_directory(output_folder, job_id)
    /\ UNCHANGED <<now, q_upload, gvars, tvars, rvars, svars, jvars, pvars, fvars>>

\* predict, line 76, and _process_zip_file, lines 129-130: the upload is
\* saved and its images extracted under the job directory.
SaveAndExtract(r) ==
    /\ q_request[r].pc = "created"
    /\ q_request' = [q_request EXCEPT ![r].pc = "extracted"]
    /\ temp_folder' =
         WriteFiles(temp_folder, q_request[r].job_id,
                    {[job_id |-> q_request[r].job_id, name |-> n, from |-> r] :
                        n \in q_upload[r]})
    /\ UNCHANGED <<now, q_upload, output_folder,
                   gvars, tvars, rvars, svars, jvars, pvars, fvars>>

\* _run_predictions, lines 168-176 and 243-246: every image of the input
\* directory is processed and output.geojson written to the output directory.
RunPredictions(r) ==
    /\ q_request[r].pc = "extracted"
    /\ \E image_files \in {listdir(temp_folder, q_request[r].job_id)} :
          /\ q_request' = [q_request EXCEPT ![r].pc = "responded", ![r].read = image_files]
          /\ output_folder' =
               WriteFiles(output_folder, q_request[r].job_id,
                          {[job_id |-> q_request[r].job_id, name |-> "output.geojson",
                            from |-> r, images |-> image_files]})
    /\ UNCHANGED <<now, q_upload, temp_folder,
                   gvars, tvars, rvars, svars, jvars, pvars, fvars>>

JobsNext ==
    \/ Tick
    \/ \E r \in Requests : CreateJobDirectories(r)
    \/ \E r \in Requests : SaveAndExtract(r)
    \/ \E r \in Requests : RunPredictions(r)

SpecJobs == JobsInit /\ [][JobsNext]_vars

(***************************************************************************)
(* Claims about the job directories                                        *)
(***************************************************************************)

\* C29: two /predict requests, handled concurrently or started within the
\* same clock second, get distinct job ids and so distinct temp and output
\* directories: a job reads only the images of its own upload, and the
\* output.geojson of its directory stays the one it wrote.  The job id is
\* the time of the request cut to the second and ensure_directory accepts
\* a directory that exists, so two requests of one second share both
\* directories.
C29_JobsIsolated ==
    /\ \A r1, r2 \in Requests :
          (r1 # r2 /\ q_request[r1].pc # "received" /\ q_request[r2].pc # "received")
              => q_request[r1].job_id # q_request[r2].job_id
    /\ \A r \in Requests :
          /\ \A f \in q_request[r].read : f.from = r
          /\ q_request[r].pc = "responded"
                => \A o \in listdir(output_folder, q_request[r].job_id) : o.from = r

====
